---------------------------- MODULE Spec2Model ----------------------------
(***************************************************************************)
(* State-machine model of the microVM boot assembler (builder.rs) and the  *)
(* action controller (controller.rs) of the vmm crate.                     *)
(*                                                                         *)
(* The control thread is the only thread that touches the state modelled   *)
(* here.  `pc` is its position: "preboot" (waiting for an action with no   *)
(* Vmm built), one value per step of build_microvm while a StartMicroVm is *)
(* being served, "running" (waiting for an action with a live Vmm) and     *)
(* "panicked" (the process aborted inside build_microvm).                  *)
(***************************************************************************)
EXTENDS Integers, Sequences, FiniteSets, TLC

VARIABLES
    arch,           \* target_arch the crate was compiled for
    vm_resources,   \* VmResources: the pre-boot Registry
    epoll_context,  \* EpollContext: the primary epoll dispatch table
    vmm,            \* the Vmm (and build_microvm's locals that end up in it)
    pc,             \* position of the control thread
    result,         \* the answer to the last action
    build_trace,    \* steps completed by the build_microvm call being served or
                    \* just answered, files opened by the drive action just
                    \* answered (history; forgotten at the next action)
    n_attempts,     \* build_microvm calls made so far
    epoll_at_call,  \* epoll_context as the last build_microvm call received it
                    \* (history)
    run,            \* VmmController::run: the exit code it broke the loop with,
                    \* and what the loop has done so far (history)
    mmio            \* the locks of the bus devices, the rescan_block_device call
                    \* in progress, the vCPU thread's MMIO exit, and the
                    \* accesses to the devices since the call began (history)

vars == <<arch, vm_resources, epoll_context, vmm, pc, result, build_trace, n_attempts,
          epoll_at_call, run, mmio>>

---------------------------------------------------------------------------
(* Bounds of the model. *)

\* build_microvm calls explored in one behaviour.
MaxStartAttempts == 1
\* ControlAction exits of the event loop explored in one run.
MaxControlActions == 2
\* MMIO exits of the vCPU thread explored in one behaviour.
MaxMmioAccesses == 2
\* Capacity of the kernel command line buffer (arch::CMDLINE_MAX_SIZE), scaled.
CmdlineCapacity == 256

---------------------------------------------------------------------------
(* Option<T>: the empty set is None, a singleton is Some(v). *)

None == {}
Some(v) == {v}
IsSome(o) == o # {}
Unwrap(o) == CHOOSE v \in o : TRUE

---------------------------------------------------------------------------
(* Error taxonomy. *)

\* ErrorKind
User == "User"
Internal == "Internal"

\* A StartMicrovmError: its variant and, where the variant wraps one, the cause.
StartErr(variant, cause) == [variant |-> variant, cause |-> cause]

\* impl From<StartMicrovmError> for VmmActionError: the kind of each variant,
\* with MicroVMAlreadyRunning misclassified.
StartMicrovmErrorKind_AlreadyRunningInternal(e) ==
    IF e.variant \in {"CreateVsockBackend", "CreateBlockDevice", "CreateNetDevice",
                      "KernelCmdline", "KernelLoader",
                      "MissingKernelConfig", "NetDeviceNotConfigured", "OpenBlockDevice"}
    THEN User
    ELSE IF e.variant = "LoadCommandline"
    THEN (IF e.cause = "CommandLineOverflow" THEN User ELSE Internal)
    ELSE Internal

\* impl From<StartMicrovmError> for VmmActionError: the kind of each variant,
\* with MissingKernelConfig misclassified.
StartMicrovmErrorKind_MissingKernelInternal(e) ==
    IF e.variant \in {"CreateVsockBackend", "CreateBlockDevice", "CreateNetDevice",
                      "KernelCmdline", "KernelLoader", "MicroVMAlreadyRunning",
                      "NetDeviceNotConfigured", "OpenBlockDevice"}
    THEN User
    ELSE IF e.variant = "LoadCommandline"
    THEN (IF e.cause = "CommandLineOverflow" THEN User ELSE Internal)
    ELSE Internal

\* impl From<StartMicrovmError> for VmmActionError: the kind of each variant,
\* with CreateRateLimiter misclassified.
StartMicrovmErrorKind_RateLimiterUser(e) ==
    IF e.variant \in {"CreateVsockBackend", "CreateBlockDevice", "CreateNetDevice",
                      "KernelCmdline", "KernelLoader", "MicroVMAlreadyRunning",
                      "MissingKernelConfig", "NetDeviceNotConfigured", "OpenBlockDevice",
                      "CreateRateLimiter"}
    THEN User
    ELSE IF e.variant = "LoadCommandline"
    THEN (IF e.cause = "CommandLineOverflow" THEN User ELSE Internal)
    ELSE Internal

\* impl From<StartMicrovmError> for VmmActionError: the kind of each variant.
StartMicrovmErrorKind(e) ==
    IF e.variant \in {"CreateVsockBackend", "CreateBlockDevice", "CreateNetDevice",
                      "KernelCmdline", "KernelLoader", "MicroVMAlreadyRunning",
                      "MissingKernelConfig", "NetDeviceNotConfigured", "OpenBlockDevice"}
    THEN User
    ELSE IF e.variant \in {"ConfigureVm", "CreateRateLimiter", "CreateVsockDevice",
                           "GuestMemory", "Internal", "RegisterBlockDevice",
                           "RegisterNetDevice", "RegisterVsockDevice"}
    THEN Internal
    ELSE \* LoadCommandline: the only user error is CommandLineOverflow
         IF e.cause = "CommandLineOverflow" THEN User ELSE Internal

\* VmmActionError values, as the record the API layer sees.
\*   domain: the VmmActionError variant; kind: VmmActionError::kind().
ActionErr(domain, kind, variant, cause) ==
    [domain |-> domain, kind |-> kind, variant |-> variant, cause |-> cause]

\* VmmActionError::from(StartMicrovmError)
FromStartMicrovmError(e) ==
    ActionErr("StartMicrovm", StartMicrovmErrorKind(e), e.variant, e.cause)

\* VmmActionError::from(DriveError): every DriveError is a User error.
FromDriveError(variant) == ActionErr("DriveConfig", User, variant, "")

\* The two phase-gate errors; VmmActionError::kind() gives User for both.
OperationNotSupportedPostBoot == ActionErr("OperationNotSupportedPostBoot", User, "", "")
OperationNotSupportedPreBoot == ActionErr("OperationNotSupportedPreBoot", User, "", "")

\* result: the action answered, how it ended, and its error when it failed;
\* arg is the drive_id a served drive action was given.
NoErr == ActionErr("", "", "", "")
Answer(action, phase, status, err) ==
    [action |-> action, phase |-> phase, status |-> status, err |-> err, arg |-> ""]
WithArg(answer, arg) == [answer EXCEPT !.arg = arg]
Ok(action, phase) == Answer(action, phase, "Ok", NoErr)
Err(action, phase, err) == Answer(action, phase, "Err", err)

---------------------------------------------------------------------------
(* Kernel command line: the arguments inserted so far, in order.  The line  *)
(* itself is the arguments joined by single spaces.                         *)

RECURSIVE CmdlineLen(_)
CmdlineLen(line) ==
    IF line = <<>> THEN 0
    ELSE Len(Head(line)) + (IF Len(line) > 1 THEN 1 ELSE 0) + CmdlineLen(Tail(line))

\* Cmdline::insert_str: append ' ' + s (s alone on an empty line); the line and
\* its NUL terminator must fit the capacity, else CommandLineOverflow.
insert_str(line, s) ==
    IF CmdlineLen(line) + Len(s) + (IF line = <<>> THEN 0 ELSE 1) < CmdlineCapacity
    THEN [ok |-> TRUE, line |-> Append(line, s)]
    ELSE [ok |-> FALSE, line |-> line]

RECURSIVE Filler(_)
Filler(n) == IF n <= 0 THEN "" ELSE "x" \o Filler(n - 1)

\* One device's advertisement on the command line: the k-th MMIO window
\* (k = 0, 1, ...) and the k-th interrupt line of the pool.
MmioFragment(k) ==
    "virtio_mmio.device=4K@0xd000"
        \o (CASE k = 0 -> "0" [] k = 1 -> "1" [] k = 2 -> "2" [] k = 3 -> "3" [] OTHER -> "4")
        \o "000:"
        \o (CASE k = 0 -> "5" [] k = 1 -> "6" [] k = 2 -> "7" [] k = 3 -> "8" [] OTHER -> "9")

MmioFragments == {MmioFragment(k) : k \in 0..4}

---------------------------------------------------------------------------
(* The Registry (VmResources) and the configurations the API can send.     *)

VmConfig(vcpu_count, ht_enabled, mem_size_mib) ==
    [vcpu_count |-> vcpu_count, ht_enabled |-> ht_enabled, mem_size_mib |-> mem_size_mib]

DefaultVmConfig == VmConfig(Some(1), Some(FALSE), Some(128))

VmConfigs ==
    { DefaultVmConfig,
      VmConfig(Some(1), Some(FALSE), None),
      VmConfig(None, Some(FALSE), Some(128)),
      VmConfig(Some(1), None, Some(128)) }

BlockDeviceConfig(drive_id, path, is_root, partuuid, read_only, rate_limiter) ==
    [drive_id |-> drive_id, path_on_host |-> path, is_root_device |-> is_root,
     partuuid |-> partuuid, is_read_only |-> read_only, rate_limiter |-> rate_limiter]

BlockConfigs ==
    { BlockDeviceConfig("root", "/img/root", TRUE, None, FALSE, None),
      BlockDeviceConfig("root", "/img/root", TRUE, Some("0eaa91a0-01"), TRUE, None),
      BlockDeviceConfig("root", "/img/root", FALSE, Some("0eaa91a0-01"), FALSE, Some("rl")),
      BlockDeviceConfig("scratch", "/img/scratch", FALSE, None, TRUE, None),
      BlockDeviceConfig("scratch", "/img/scratch", TRUE, None, TRUE, None) }

NetworkInterfaceConfig(iface_id, host_dev_name, rx, tx) ==
    [iface_id |-> iface_id, host_dev_name |-> host_dev_name,
     rx_rate_limiter |-> rx, tx_rate_limiter |-> tx]

NetConfigs ==
    { NetworkInterfaceConfig("eth0", "tap0", None, None),
      NetworkInterfaceConfig("eth1", "tap1", Some("rl"), None) }

VsockDeviceConfig == [vsock_id |-> "vsock0", guest_cid |-> 3, uds_path |-> "/run/v.sock"]

\* Boot arguments: a short line, and one that leaves room for root=/dev/vda and
\* its flag but for no root=PARTUUID= argument and no device fragment.
BootArgs == { "console=ttyS0", Filler(CmdlineCapacity - 21) }

\* BootConfig: the command line built from the boot arguments.
BootConfig(boot_args) == [cmdline |-> insert_str(<<>>, boot_args).line]

EmptyVmResources ==
    [vm_config |-> DefaultVmConfig, boot_source |-> None, block |-> <<>>,
     network_interface |-> <<>>, vsock |-> None]

\* has_root_block_device answering yes whatever the list.
has_root_block_device_Always(block) == TRUE

\* has_partuuid_root answering no whatever the list.
has_partuuid_root_Never(block) == FALSE

\* BlockDeviceConfigs helpers used by attach_block_devices.
has_root_block_device(block) == \E i \in 1..Len(block) : block[i].is_root_device
has_partuuid_root(block) ==
    \E i \in 1..Len(block) : block[i].is_root_device /\ IsSome(block[i].partuuid)
has_read_only_root(block) ==
    \E i \in 1..Len(block) : block[i].is_root_device /\ block[i].is_read_only
get_index_of_drive_id(block, drive_id) ==
    {i \in 1..Len(block) : block[i].drive_id = drive_id}

---------------------------------------------------------------------------
(* The primary epoll context and the Vmm.                                  *)

\* An entry of the dispatch table: the EpollDispatch token and, for a device
\* handler, the device it belongs to.
\* disk_image is the backing file a block device's handler works on,
\* disk_write whether that file was opened for writing.
\* rate_limiters are the token buckets a net device's handler was last given
\* for each of its four buckets (None: the bucket is as the device was built).
Unpatched == [rx_bandwidth |-> None, rx_ops |-> None, tx_bandwidth |-> None, tx_ops |-> None]

Dispatch(token, type, id) ==
    [token |-> token, type |-> type, id |-> id, disk_image |-> "", disk_write |-> FALSE,
     rate_limiters |-> Unpatched]

\* EpollContext::add_epollin_event: register an fd under a token.
add_epollin_event(ctx, token) == Append(ctx, Dispatch(token, "", ""))

\* EpollContext::allocate_tokens_for_virtio_device: the device's event tokens.
allocate_tokens_for_virtio_device(ctx, type, id) ==
    Append(ctx, Dispatch("DeviceHandler", type, id))

\* The entry get_device_handler_by_device_id finds: the last one allocated for
\* the device.
device_handler(ctx, type, id) ==
    LET at == {i \in 1..Len(ctx) : ctx[i].token = "DeviceHandler"
                                     /\ ctx[i].type = type /\ ctx[i].id = id}
    IN  IF at = {} THEN None ELSE Some(CHOOSE i \in at : \A j \in at : j <= i)

\* An open File: its path and whether it was opened for writing.
\* OpenOptions::new().read(true).write(!drive_config.is_read_only).open(path)
block_file(drive_config) ==
    [path |-> drive_config.path_on_host, write |-> ~drive_config.is_read_only]

\* The new disk file opened for writing whatever the drive's flag.
disk_file_AlwaysWritable(cfg, path) == [path |-> path, write |-> TRUE]

\* OpenOptions::new().read(true).write(!config.is_read_only()).open(&file_path)
disk_file(cfg, path) == [path |-> path, write |-> ~cfg.is_read_only]

\* File::open(&drive_config.path_on_host): read-only.
rescan_file(drive_config) == [path |-> drive_config.path_on_host, write |-> FALSE]

\* A file opened by the action being answered, for build_trace.
Opened(drive_id, file) == [step |-> "open", id |-> drive_id, file |-> file]

\* The block handler of drive `id` is given `file`.
update_disk_image(ctx, id, file) ==
    LET h == device_handler(ctx, "block", id)
    IN  IF h = None THEN ctx
        ELSE [ctx EXCEPT ![Unwrap(h)].disk_image = file.path,
                         ![Unwrap(h)].disk_write = file.write]

\* The metrics timer: TimerState::Periodic { current, interval }, in seconds.
WRITE_METRICS_PERIOD_SECONDS == 60
Periodic(current, interval) ==
    [kind |-> "Periodic", current |-> current, interval |-> interval]

\* No Vmm: nothing built, nothing owned.  timer_state is the state the metrics
\* timer was set to, log_metrics_calls the calls of LOGGER.log_metrics().
NoVmm ==
    [guest_memory |-> FALSE, guest_cmdline |-> None, vcpu_config |-> None,
     kernel_loaded |-> FALSE, kernel_cmdline |-> <<>>, cmdline_is_clone |-> TRUE,
     write_metrics_event_fd |-> "none", event_manager |-> FALSE, vm |-> FALSE,
     mmio_device_manager |-> FALSE, bus |-> <<>>, pio_device_manager |-> FALSE,
     irqchip |-> FALSE, legacy_devices |-> FALSE, vcpus |-> "none",
     system_configured |-> FALSE, exit_evt |-> FALSE, missed_metrics |-> 0,
     timer_state |-> None, log_metrics_calls |-> 0]

\* A device on the MMIO bus.  config_space holds the capacity, in sectors, a
\* block device shows the guest; interrupt_status is the VIRTIO_MMIO_INT_CONFIG
\* bit of its interrupt status.
BusDevice(type, id, slot, read_only, sectors) ==
    [type |-> type, id |-> id, slot |-> slot, read_only |-> read_only,
     config_space |-> sectors, interrupt_status |-> FALSE]

\* get_bus_device(DeviceType::Virtio(TYPE_BLOCK), drive_id): where it is on the bus.
BlockOnBus(bus, drive_id) ==
    {i \in 1..Len(bus) : bus[i].type = "block" /\ bus[i].id = drive_id}

NumOnBus(v, type) == Cardinality({i \in 1..Len(v.bus) : v.bus[i].type = type})

\* An event of build_trace.
Ev(step, id) == [step |-> step, id |-> id]

\* virtio block: SECTOR_SIZE, the size a backing file has when its device is
\* attached, and the sizes a rescan can find it to have.
SECTOR_SIZE == 512
BootDiskSizes == {SECTOR_SIZE * 5}
DiskSizes == {SECTOR_SIZE * 3 + 17}
\* devices::virtio::build_config_space: the capacity in whole sectors.
build_config_space(size) == size \div SECTOR_SIZE

---------------------------------------------------------------------------
(* Phase gate.                                                             *)

\* VmmAction variants documented "can only be called before the microVM has
\* booted", with InsertBlockDevice left out.
PreBootOnlyActions_NoInsertBlock ==
    {"ConfigureBootSource", "ConfigureLogger", "SetVmConfiguration",
     "InsertNetworkDevice", "SetVsockDevice"}

\* VmmAction variants documented "can only be called before the microVM has booted".
PreBootOnlyActions ==
    {"ConfigureBootSource", "ConfigureLogger", "SetVmConfiguration",
     "InsertBlockDevice", "InsertNetworkDevice", "SetVsockDevice"}

\* VmmAction variants documented "can only be called after the microVM is
\* started", with RescanBlockDevice left out.
PostBootOnlyActions_NoRescan == {}

\* VmmAction variants documented "can only be called after the microVM is started".
PostBootOnlyActions == {"RescanBlockDevice"}

Phase == IF pc = "running" THEN "postboot" ELSE "preboot"

\* The controller waits for an action: before boot (while the model still
\* explores build attempts) or with a live Vmm.
AwaitingAction ==
    \/ pc = "preboot" /\ n_attempts < MaxStartAttempts
    \/ pc = "running"

\* The gate's verdict on an action in the current phase: "" when it may run.
Gate(action) ==
    IF Phase = "postboot" /\ action \in PreBootOnlyActions THEN "PostBoot"
    ELSE IF Phase = "preboot" /\ action \in PostBootOnlyActions THEN "PreBoot"
    ELSE ""

\* An action the gate refuses: the error is the answer and nothing else changes.
Refused(action) ==
    /\ Gate(action) # ""
    /\ result' = Err(action, Phase,
                     IF Gate(action) = "PostBoot" THEN OperationNotSupportedPostBoot
                     ELSE OperationNotSupportedPreBoot)
    /\ build_trace' = <<>>
    /\ UNCHANGED <<arch, run, mmio, epoll_at_call, vm_resources, epoll_context, vmm, pc, n_attempts>>

\* An action that changes the Registry only.
RegistryAction(action, new_resources, answer) ==
    /\ Gate(action) = ""
    /\ vm_resources' = new_resources
    /\ result' = answer
    /\ build_trace' = <<>>
    /\ UNCHANGED <<arch, run, mmio, epoll_at_call, epoll_context, vmm, pc, n_attempts>>

\* VmmController::run not called: no exit code, nothing done.
\*   exit_code: the value `loop` broke with; exit_reason: what the last
\*   run_event_loop call returned; handler_ret: what the last
\*   handle_control_event call returned; waits, control_actions,
\*   handler_calls: calls and ControlAction exits so far; stop_calls: the
\*   codes stop was called with.
\* No bus device locked, no rescan in progress, the vCPU in guest mode.
Quiet ==
    [lock |-> {}, call |-> None, vcpu |-> [pos |-> "guest", id |-> ""], log |-> <<>>,
     accesses |-> 0]

NotRun ==
    [exit_code |-> None, exit_reason |-> "", handler_ret |-> [status |-> "", code |-> None],
     waits |-> 0, control_actions |-> 0, handler_calls |-> 0, stop_calls |-> <<>>]

---------------------------------------------------------------------------
(* Configuration actions: they act on the Registry.                        *)

Init ==
    /\ arch \in {"x86_64", "aarch64"}
    /\ vm_resources = EmptyVmResources
    /\ epoll_context = <<>>
    /\ vmm = NoVmm
    /\ pc = "preboot"
    /\ result = Answer("", "preboot", "", NoErr)
    /\ build_trace = <<>>
    /\ n_attempts = 0
    /\ epoll_at_call = <<>>
    /\ run = NotRun
    /\ mmio = Quiet

ConfigureBootSource ==
    /\ AwaitingAction
    /\ \/ Refused("ConfigureBootSource")
       \/ \E args \in BootArgs :
            RegistryAction("ConfigureBootSource",
                           [vm_resources EXCEPT !.boot_source = Some(BootConfig(args))],
                           Ok("ConfigureBootSource", Phase))

ConfigureLogger ==
    /\ AwaitingAction
    /\ \/ Refused("ConfigureLogger")
       \/ RegistryAction("ConfigureLogger", vm_resources, Ok("ConfigureLogger", Phase))

SetVmConfiguration ==
    /\ AwaitingAction
    /\ \/ Refused("SetVmConfiguration")
       \/ \E cfg \in VmConfigs :
            RegistryAction("SetVmConfiguration",
                           [vm_resources EXCEPT !.vm_config = cfg],
                           Ok("SetVmConfiguration", Phase))

\* Inserting a block config: one with a known drive_id replaces that entry in
\* place, a new one goes to the end of the list; a second root is refused.
block_insert(block, cfg) ==
    LET at == get_index_of_drive_id(block, cfg.drive_id)
        other_root == \E j \in 1..Len(block) :
                        block[j].is_root_device /\ block[j].drive_id # cfg.drive_id
    IN  IF cfg.is_root_device /\ other_root
        THEN [ok |-> FALSE, block |-> block]
        ELSE IF at # {}
        THEN [ok |-> TRUE, block |-> [block EXCEPT ![Unwrap(at)] = cfg]]
        ELSE [ok |-> TRUE, block |-> Append(block, cfg)]

InsertBlockDevice ==
    /\ AwaitingAction
    /\ \/ Refused("InsertBlockDevice")
       \/ \E cfg \in BlockConfigs :
            LET ins == block_insert(vm_resources.block, cfg)
            IN  RegistryAction("InsertBlockDevice",
                               [vm_resources EXCEPT !.block = ins.block],
                               IF ins.ok THEN Ok("InsertBlockDevice", Phase)
                               ELSE Err("InsertBlockDevice", Phase,
                                        FromDriveError("RootBlockDeviceAlreadyAdded")))

\* Inserting a network interface config: replace by iface_id, else append.
net_insert(ifaces, cfg) ==
    LET at == {i \in 1..Len(ifaces) : ifaces[i].iface_id = cfg.iface_id}
    IN  IF at # {} THEN [ifaces EXCEPT ![Unwrap(at)] = cfg] ELSE Append(ifaces, cfg)

InsertNetworkDevice ==
    /\ AwaitingAction
    /\ \/ Refused("InsertNetworkDevice")
       \/ \E cfg \in NetConfigs :
            RegistryAction("InsertNetworkDevice",
                           [vm_resources EXCEPT
                               !.network_interface = net_insert(@, cfg)],
                           Ok("InsertNetworkDevice", Phase))

SetVsockDevice ==
    /\ AwaitingAction
    /\ \/ Refused("SetVsockDevice")
       \/ RegistryAction("SetVsockDevice",
                         [vm_resources EXCEPT !.vsock = Some(VsockDeviceConfig)],
                         Ok("SetVsockDevice", Phase))

---------------------------------------------------------------------------
(* build_microvm: one action per step, in the order of the source.         *)

\* The interrupt controller, the legacy devices and the vCPUs, in the x86_64
\* order whatever the architecture.
ArchSetupOrder_X86Always(a) ==
    <<"setup_interrupt_controller", "attach_legacy_devices", "create_vcpus">>

\* The interrupt controller, the legacy devices and the vCPUs, in the order of
\* the target architecture.
ArchSetupOrder(a) ==
    IF a = "x86_64"
    THEN <<"setup_interrupt_controller", "attach_legacy_devices", "create_vcpus">>
    ELSE <<"create_vcpus", "setup_interrupt_controller", "attach_legacy_devices">>

\* The steps of build_microvm, with the metrics timer set up before guest memory.
BuildPipeline_MetricsFirst(a) ==
    <<"boot_source", "setup_metrics", "create_guest_memory", "vcpu_config", "load_kernel",
      "clone_cmdline", "setup_event_manager", "setup_kvm_vm", "new_vmm">>
    \o ArchSetupOrder(a)
    \o <<"attach_block_devices", "attach_net_devices", "attach_vsock_device">>
    \o (IF a = "x86_64" THEN <<"load_cmdline">> ELSE <<>>)
    \o <<"configure_system", "register_events", "start_vcpus", "arm_logger_and_metrics">>

\* The steps of build_microvm, with the network interfaces attached before the
\* block devices.
BuildPipeline_NetBeforeBlock(a) ==
    <<"boot_source", "create_guest_memory", "vcpu_config", "load_kernel",
      "clone_cmdline", "setup_metrics", "setup_event_manager", "setup_kvm_vm",
      "new_vmm">>
    \o ArchSetupOrder(a)
    \o <<"attach_net_devices", "attach_block_devices", "attach_vsock_device">>
    \o (IF a = "x86_64" THEN <<"load_cmdline">> ELSE <<>>)
    \o <<"configure_system", "register_events", "start_vcpus", "arm_logger_and_metrics">>

\* The steps of build_microvm with the vCPUs started before the events are
\* registered.
BuildPipeline_VcpusBeforeEvents(a) ==
    <<"boot_source", "create_guest_memory", "vcpu_config", "load_kernel",
      "clone_cmdline", "setup_metrics", "setup_event_manager", "setup_kvm_vm",
      "new_vmm">>
    \o ArchSetupOrder(a)
    \o <<"attach_block_devices", "attach_net_devices", "attach_vsock_device">>
    \o (IF a = "x86_64" THEN <<"load_cmdline">> ELSE <<>>)
    \o <<"configure_system", "start_vcpus", "register_events", "arm_logger_and_metrics">>

\* The steps of build_microvm with the metrics timer armed before the vCPUs
\* are started.
BuildPipeline_ArmBeforeVcpus(a) ==
    <<"boot_source", "create_guest_memory", "vcpu_config", "load_kernel",
      "clone_cmdline", "setup_metrics", "setup_event_manager", "setup_kvm_vm",
      "new_vmm">>
    \o ArchSetupOrder(a)
    \o <<"attach_block_devices", "attach_net_devices", "attach_vsock_device">>
    \o (IF a = "x86_64" THEN <<"load_cmdline">> ELSE <<>>)
    \o <<"configure_system", "register_events", "arm_logger_and_metrics", "start_vcpus">>

\* The steps of build_microvm, in program order.
BuildPipeline(a) ==
    <<"boot_source", "create_guest_memory", "vcpu_config", "load_kernel",
      "clone_cmdline", "setup_metrics", "setup_event_manager", "setup_kvm_vm",
      "new_vmm">>
    \o ArchSetupOrder(a)
    \o <<"attach_block_devices", "attach_net_devices", "attach_vsock_device">>
    \o (IF a = "x86_64" THEN <<"load_cmdline">> ELSE <<>>)
    \o <<"configure_system", "register_events", "start_vcpus", "arm_logger_and_metrics">>

StepAfter(a, step) ==
    LET p == BuildPipeline(a)
        i == CHOOSE k \in 1..Len(p) : p[k] = step
    IN  IF i = Len(p) THEN "running" ELSE p[i + 1]

InBuild == pc \notin {"preboot", "running", "panicked"}

\* The Registry as a step leaves it: build_microvm holds it by shared reference,
\* so only a command line that is not a clone could carry a change back.
RegistryWith(v) ==
    IF v.cmdline_is_clone THEN vm_resources
    ELSE [vm_resources EXCEPT !.boot_source = Some([cmdline |-> v.kernel_cmdline])]

\* A step succeeded: go to the next one.
Proceed(step, id, next_pc, new_vmm, new_epoll) ==
    /\ pc' = next_pc
    /\ build_trace' = Append(build_trace, Ev(step, id))
    /\ vmm' = new_vmm
    /\ epoll_context' = new_epoll
    /\ vm_resources' = RegistryWith(new_vmm)
    /\ UNCHANGED <<arch, run, mmio, epoll_at_call, result, n_attempts>>

\* A step failed (`?`): everything build_microvm owns is dropped and the error,
\* converted to a VmmActionError, is the answer.  `last_vmm` is the Vmm as the
\* failing step left it, `new_epoll` the caller's epoll context as it left it,
\* `dropped` the events to remember of what `map_err` threw away.
\* The devices of a failed build are dropped, and the files they own are
\* closed; the tokens allocated for them stay in the dispatcher.
drop_devices(ctx) ==
    [i \in 1..Len(ctx) |-> [ctx[i] EXCEPT !.disk_image = "", !.disk_write = FALSE]]

AbortDropping(e, last_vmm, new_epoll, dropped) ==
    /\ pc' = "preboot"
    /\ vmm' = NoVmm
    /\ result' = Err("StartMicroVm", "preboot", FromStartMicrovmError(e))
    /\ epoll_context' = drop_devices(new_epoll)
    /\ vm_resources' = RegistryWith(last_vmm)
    /\ build_trace' = build_trace \o dropped
    /\ UNCHANGED <<arch, run, mmio, epoll_at_call, n_attempts>>

Abort(e, last_vmm, new_epoll) == AbortDropping(e, last_vmm, new_epoll, <<>>)

\* unwrap()/expect() on a None/Err: the process aborts.
Panic ==
    /\ pc' = "panicked"
    /\ vmm' = NoVmm
    /\ UNCHANGED <<arch, run, mmio, epoll_at_call, vm_resources, epoll_context, result, build_trace, n_attempts>>

StartMicroVm ==
    /\ AwaitingAction
    /\ \/ /\ Phase = "postboot"
          /\ result' = Err("StartMicroVm", "postboot",
                           FromStartMicrovmError(StartErr("MicroVMAlreadyRunning", "")))
          /\ build_trace' = <<>>
          /\ UNCHANGED <<arch, run, mmio, epoll_at_call, vm_resources, epoll_context, vmm, pc, n_attempts>>
       \/ /\ Phase = "preboot"
          /\ pc' = "boot_source"
          /\ n_attempts' = n_attempts + 1
          /\ build_trace' = <<>>
          /\ result' = Answer("StartMicroVm", "preboot", "Pending", NoErr)
          /\ epoll_at_call' = epoll_context
          /\ UNCHANGED <<arch, run, mmio, vm_resources, epoll_context, vmm>>

resolve_boot_source ==
    /\ pc = "boot_source"
    /\ IF vm_resources.boot_source = None
       THEN Abort(StartErr("MissingKernelConfig", ""), vmm, epoll_context)
       ELSE Proceed("boot_source", "", StepAfter(arch, "boot_source"), vmm, epoll_context)

create_guest_memory ==
    /\ pc = "create_guest_memory"
    /\ \E f \in {"ok", "mmap"} :
         IF vm_resources.vm_config.mem_size_mib = None
         THEN Abort(StartErr("GuestMemory", "MemoryNotInitialized"), vmm, epoll_context)
         ELSE IF f = "mmap"
         THEN Abort(StartErr("GuestMemory", "mmap"), vmm, epoll_context)
         ELSE Proceed("create_guest_memory", "", StepAfter(arch, "create_guest_memory"),
                      [vmm EXCEPT !.guest_memory = TRUE], epoll_context)

vcpu_config ==
    /\ pc = "vcpu_config"
    /\ LET cfg == vm_resources.vm_config
       IN  IF cfg.vcpu_count = None \/ cfg.ht_enabled = None
           THEN Panic
           ELSE Proceed("vcpu_config", "", StepAfter(arch, "vcpu_config"),
                        [vmm EXCEPT !.vcpu_config =
                            Some([vcpu_count |-> Unwrap(cfg.vcpu_count),
                                  ht_enabled |-> Unwrap(cfg.ht_enabled)])],
                        epoll_context)

load_kernel ==
    /\ pc = "load_kernel"
    /\ \E f \in {"ok", "try_clone", "loader"} :
         IF f = "try_clone"
         THEN Abort(StartErr("Internal", "KernelFile"), vmm, epoll_context)
         ELSE IF f = "loader"
         THEN Abort(StartErr("KernelLoader", ""), vmm, epoll_context)
         ELSE Proceed("load_kernel", "", StepAfter(arch, "load_kernel"),
                      [vmm EXCEPT !.kernel_loaded = TRUE], epoll_context)

\* boot_config.cmdline taken by reference instead of cloned.
boot_cmdline_clone_Borrowed(cmdline) == [line |-> cmdline, is_clone |-> FALSE]

\* boot_config.cmdline.clone()
boot_cmdline_clone(cmdline) == [line |-> cmdline, is_clone |-> TRUE]

clone_cmdline ==
    /\ pc = "clone_cmdline"
    /\ LET c == boot_cmdline_clone(Unwrap(vm_resources.boot_source).cmdline)
       IN  Proceed("clone_cmdline", "", StepAfter(arch, "clone_cmdline"),
                   [vmm EXCEPT !.kernel_cmdline = c.line, !.cmdline_is_clone = c.is_clone],
                   epoll_context)

setup_metrics ==
    /\ pc = "setup_metrics"
    /\ \E f \in {"ok", "timerfd", "epoll_add"} :
         IF f = "timerfd"
         THEN Abort(StartErr("Internal", "TimerFd"), vmm, epoll_context)
         ELSE IF f = "epoll_add"
         THEN Panic
         ELSE Proceed("setup_metrics", "", StepAfter(arch, "setup_metrics"),
                      [vmm EXCEPT !.write_metrics_event_fd = "created"],
                      add_epollin_event(epoll_context, "WriteMetrics"))

setup_event_manager ==
    /\ pc = "setup_event_manager"
    /\ \E f \in {"ok", "new", "epoll_add"} :
         IF f = "new"
         THEN Abort(StartErr("Internal", "EventManager"), vmm, epoll_context)
         ELSE IF f = "epoll_add"
         THEN Panic
         ELSE Proceed("setup_event_manager", "", StepAfter(arch, "setup_event_manager"),
                      [vmm EXCEPT !.event_manager = TRUE],
                      add_epollin_event(epoll_context, "PollyEvent"))

setup_kvm_vm ==
    /\ pc = "setup_kvm_vm"
    /\ \E f \in {"ok", "KvmContext", "Vm", "memory_init"} :
         IF f \in {"KvmContext", "Vm"}
         THEN Abort(StartErr("Internal", f), vmm, epoll_context)
         ELSE IF f = "memory_init"
         THEN Abort(StartErr("ConfigureVm", ""), vmm, epoll_context)
         ELSE Proceed("setup_kvm_vm", "", StepAfter(arch, "setup_kvm_vm"),
                      [vmm EXCEPT !.vm = TRUE], epoll_context)

\* MMIODeviceManager::new and the Vmm struct (PortIODeviceManager::new on x86_64).
new_vmm ==
    /\ pc = "new_vmm"
    /\ \E f \in {"ok", "pio"} :
         IF f = "pio" /\ arch = "x86_64"
         THEN Abort(StartErr("Internal", "CreateLegacyDevice"), vmm, epoll_context)
         ELSE Proceed("new_vmm", "", StepAfter(arch, "new_vmm"),
                      [vmm EXCEPT !.mmio_device_manager = TRUE,
                                  !.pio_device_manager = (arch = "x86_64")],
                      epoll_context)

setup_interrupt_controller ==
    /\ pc = "setup_interrupt_controller"
    /\ \E f \in {"ok", "fail"} :
         IF f = "fail"
         THEN Abort(StartErr("Internal", "setup_interrupt_controller"), vmm, epoll_context)
         ELSE Proceed("setup_interrupt_controller", "",
                      StepAfter(arch, "setup_interrupt_controller"),
                      [vmm EXCEPT !.irqchip = TRUE], epoll_context)

attach_legacy_devices ==
    /\ pc = "attach_legacy_devices"
    /\ \E f \in {"ok", "fail"} :
         IF f = "fail"
         THEN Abort(StartErr("Internal", "attach_legacy_devices"), vmm, epoll_context)
         ELSE Proceed("attach_legacy_devices", "", StepAfter(arch, "attach_legacy_devices"),
                      [vmm EXCEPT !.legacy_devices = TRUE], epoll_context)

create_vcpus ==
    /\ pc = "create_vcpus"
    /\ \E f \in {"ok", "fail"} :
         IF f = "fail"
         THEN Abort(StartErr("Internal", "create_vcpus"), vmm, epoll_context)
         ELSE Proceed("create_vcpus", "", StepAfter(arch, "create_vcpus"),
                      [vmm EXCEPT !.vcpus = "created"], epoll_context)

---------------------------------------------------------------------------
(* Device attachment.                                                      *)

\* MMIODeviceManager::register_mmio_device: the next MMIO window and interrupt
\* line, the bus mapping, and the device's fragment on the command line.
register_mmio_device(v, type, id, read_only, sectors, env_fails) ==
    LET slot == Len(v.bus)
        ins == insert_str(v.kernel_cmdline, MmioFragment(slot))
    IN  IF env_fails THEN [ok |-> FALSE, cause |-> "RegisterIrqFd", vmm |-> v]
        ELSE IF ~ins.ok THEN [ok |-> FALSE, cause |-> "Cmdline", vmm |-> v]
        ELSE [ok |-> TRUE, cause |-> "",
              vmm |-> [v EXCEPT !.bus = Append(@, BusDevice(type, id, slot, read_only, sectors)),
                                !.kernel_cmdline = ins.line]]

\* attach_mmio_device: every registration error becomes RegisterBlockDevice.
attach_mmio_device(v, type, id, read_only, sectors, env_fails) ==
    LET r == register_mmio_device(v, type, id, read_only, sectors, env_fails)
    IN  IF r.ok THEN [err |-> None, vmm |-> r.vmm]
        ELSE [err |-> Some(StartErr("RegisterBlockDevice", r.cause)), vmm |-> v]

\* How one device's attachment ended: the error if any, the Vmm and the epoll
\* context as it left them.
Outcome(err, v, ctx) == [err |-> err, vmm |-> v, ctx |-> ctx]

\* utils::net::TapError: why open_tap failed.
TapErrors == {"OpenTun", "CreateTap", "InvalidIfname", "IoctlError", "CreateSocket"}

\* The flags the other way round.
RootFlags_Inverted(read_only) == IF read_only THEN "rw" ELSE "ro"

RootFlags(read_only) == IF read_only THEN "ro" ELSE "rw"

\* The first lines of attach_block_devices: root=/dev/vda and ro|rw for a root
\* device without PARTUUID.
attach_block_root_args(v, block) ==
    LET r1 == insert_str(v.kernel_cmdline, "root=/dev/vda")
        r2 == insert_str(r1.line, RootFlags(has_read_only_root(block)))
    IN  IF ~(has_root_block_device(block) /\ ~has_partuuid_root(block))
        THEN [ok |-> TRUE, vmm |-> v]
        ELSE IF ~r1.ok THEN [ok |-> FALSE, vmm |-> v]
        ELSE [ok |-> r2.ok, vmm |-> [v EXCEPT !.kernel_cmdline = r2.line]]

\* One iteration of the loop of attach_block_devices, failing at point f
\* ("ok": the environment lets every call succeed).
attach_block_device(v, ctx, cfg, f, size) ==
    LET pu == cfg.is_root_device /\ IsSome(cfg.partuuid)
        r1 == IF pu THEN insert_str(v.kernel_cmdline, "root=PARTUUID=" \o Unwrap(cfg.partuuid))
              ELSE [ok |-> TRUE, line |-> v.kernel_cmdline]
        r2 == IF pu /\ r1.ok THEN insert_str(r1.line, RootFlags(cfg.is_read_only)) ELSE r1
        v2 == [v EXCEPT !.kernel_cmdline = r2.line]
        ctx2 == allocate_tokens_for_virtio_device(ctx, "block", cfg.drive_id)
        \* Block::new takes the opened file
        ctx3 == update_disk_image(ctx2, cfg.drive_id, block_file(cfg))
        att == attach_mmio_device(v2, "block", cfg.drive_id, cfg.is_read_only,
                                  build_config_space(size), f = "register")
    IN  IF f = "open" THEN Outcome(Some(StartErr("OpenBlockDevice", "")), v, ctx)
        ELSE IF ~r2.ok THEN Outcome(Some(StartErr("KernelCmdline", "CommandLineOverflow")), v2, ctx)
        ELSE IF f = "rate_limiter" /\ IsSome(cfg.rate_limiter)
        THEN Outcome(Some(StartErr("CreateRateLimiter", "")), v2, ctx2)
        ELSE IF f = "create" THEN Outcome(Some(StartErr("CreateBlockDevice", "")), v2, ctx2)
        ELSE IF f = "mmio_new"
        THEN Outcome(Some(StartErr("RegisterBlockDevice", "CreateMmioDevice")), v2, ctx3)
        ELSE Outcome(att.err, att.vmm, ctx3)

\* One iteration of the loop of attach_net_devices.
attach_net_device(v, ctx, cfg, f) ==
    LET ctx2 == allocate_tokens_for_virtio_device(ctx, "net", cfg.iface_id)
        att == attach_mmio_device(v, "net", cfg.iface_id, FALSE, 0, f = "register")
    IN  IF f = "rate_limiter" /\ (IsSome(cfg.rx_rate_limiter) \/ IsSome(cfg.tx_rate_limiter))
        THEN Outcome(Some(StartErr("CreateRateLimiter", "")), v, ctx2)
        ELSE IF f = "open" THEN Outcome(Some(StartErr("NetDeviceNotConfigured", "")), v, ctx2)
        ELSE IF f = "create" THEN Outcome(Some(StartErr("CreateNetDevice", "")), v, ctx2)
        ELSE IF f = "mmio_new"
        THEN Outcome(Some(StartErr("RegisterNetDevice", "CreateMmioDevice")), v, ctx2)
        ELSE Outcome(att.err, att.vmm, ctx2)

\* The body of attach_vsock_device for a configured vsock.
attach_vsock(v, ctx, cfg, f) ==
    LET ctx2 == allocate_tokens_for_virtio_device(ctx, "vsock", cfg.vsock_id)
        att == attach_mmio_device(v, "vsock", cfg.vsock_id, FALSE, 0, f = "register")
    IN  IF f = "open" THEN Outcome(Some(StartErr("CreateVsockBackend", "")), v, ctx)
        ELSE IF f = "create" THEN Outcome(Some(StartErr("CreateVsockDevice", "")), v, ctx2)
        ELSE IF f = "mmio_new"
        THEN Outcome(Some(StartErr("RegisterVsockDevice", "CreateMmioDevice")), v, ctx2)
        ELSE Outcome(att.err, att.vmm, ctx2)

\* Where the environment can make one device's attachment fail.
AttachFailures == {"ok", "open", "rate_limiter", "create", "mmio_new", "register"}

\* An attachment step's successor: abort on an error, else go on.
AttachStep(step, id, out, next_pc) ==
    IF IsSome(out.err)
    THEN Abort(Unwrap(out.err), out.vmm, out.ctx)
    ELSE Proceed(step, id, next_pc, out.vmm, out.ctx)

attach_block_devices ==
    /\ pc = "attach_block_devices"
    /\ LET r == attach_block_root_args(vmm, vm_resources.block)
       IN  IF ~r.ok
           THEN Abort(StartErr("KernelCmdline", "CommandLineOverflow"), r.vmm, epoll_context)
           ELSE Proceed("attach_block_devices", "",
                        IF vm_resources.block = <<>>
                        THEN StepAfter(arch, "attach_block_devices")
                        ELSE "attach_block_devices.loop",
                        r.vmm, epoll_context)

attach_block_devices_loop ==
    /\ pc = "attach_block_devices.loop"
    /\ LET i == NumOnBus(vmm, "block") + 1
           cfg == vm_resources.block[i]
       IN  \E f \in AttachFailures, size \in BootDiskSizes :
             AttachStep("attach_block", cfg.drive_id,
                        attach_block_device(vmm, epoll_context, cfg, f, size),
                        IF i = Len(vm_resources.block)
                        THEN StepAfter(arch, "attach_block_devices")
                        ELSE "attach_block_devices.loop")

attach_net_devices ==
    /\ pc = "attach_net_devices"
    /\ LET i == NumOnBus(vmm, "net") + 1
           ifaces == vm_resources.network_interface
       IN  IF ifaces = <<>>
           THEN Proceed("attach_net_devices", "", StepAfter(arch, "attach_net_devices"),
                        vmm, epoll_context)
           ELSE \E f \in AttachFailures :
                \E te \in IF f = "open" THEN TapErrors ELSE {"OpenTun"} :
                  LET out == attach_net_device(vmm, epoll_context, ifaces[i], f)
                  IN  IF IsSome(out.err) /\ Unwrap(out.err).variant = "NetDeviceNotConfigured"
                      THEN \* open_tap() failed with te; map_err(|_| ..) drops it
                           AbortDropping(Unwrap(out.err), out.vmm, out.ctx,
                                         <<Ev("open_tap", te)>>)
                      ELSE AttachStep("attach_net", ifaces[i].iface_id, out,
                                      IF i = Len(ifaces)
                                      THEN StepAfter(arch, "attach_net_devices")
                                      ELSE "attach_net_devices")

attach_vsock_device ==
    /\ pc = "attach_vsock_device"
    /\ IF vm_resources.vsock = None
       THEN Proceed("attach_vsock_device", "", StepAfter(arch, "attach_vsock_device"),
                    vmm, epoll_context)
       ELSE \E f \in AttachFailures :
              AttachStep("attach_vsock", Unwrap(vm_resources.vsock).vsock_id,
                         attach_vsock(vmm, epoll_context, Unwrap(vm_resources.vsock), f),
                         StepAfter(arch, "attach_vsock_device"))

---------------------------------------------------------------------------
(* The last steps of build_microvm.                                        *)

\* load_cmdline (x86_64): the command line is written to guest memory at
\* CMDLINE_START.
load_cmdline ==
    /\ pc = "load_cmdline"
    /\ \E f \in {"ok", "InvalidAscii", "CommandLineCopy", "CommandLineOverflow"} :
         IF f # "ok"
         THEN Abort(StartErr("LoadCommandline", f), vmm, epoll_context)
         ELSE Proceed("load_cmdline", "", StepAfter(arch, "load_cmdline"),
                      [vmm EXCEPT !.guest_cmdline = Some(vmm.kernel_cmdline)],
                      epoll_context)

configure_system ==
    /\ pc = "configure_system"
    /\ \E f \in {"ok", "fail"} :
         IF f = "fail"
         THEN Abort(StartErr("Internal", "configure_system"), vmm, epoll_context)
         ELSE Proceed("configure_system", "", StepAfter(arch, "configure_system"),
                      [vmm EXCEPT !.system_configured = TRUE], epoll_context)

register_events ==
    /\ pc = "register_events"
    /\ \E f \in {"ok", "fail"} :
         IF f = "fail"
         THEN Abort(StartErr("Internal", "register_events"), vmm, epoll_context)
         ELSE Proceed("register_events", "", StepAfter(arch, "register_events"),
                      [vmm EXCEPT !.exit_evt = TRUE],
                      add_epollin_event(epoll_context, "Exit"))

start_vcpus ==
    /\ pc = "start_vcpus"
    /\ \E f \in {"ok", "fail"} :
         IF f = "fail"
         THEN Abort(StartErr("Internal", "start_vcpus"), vmm, epoll_context)
         ELSE Proceed("start_vcpus", "", StepAfter(arch, "start_vcpus"),
                      [vmm EXCEPT !.vcpus = "started"], epoll_context)

\* arm_logger_and_metrics, then Ok(vmm).
arm_logger_and_metrics ==
    /\ pc = "arm_logger_and_metrics"
    /\ \E dump_ok \in BOOLEAN :
         /\ pc' = StepAfter(arch, "arm_logger_and_metrics")
         /\ build_trace' = Append(build_trace, Ev("arm_logger_and_metrics", ""))
         /\ vmm' = [vmm EXCEPT !.write_metrics_event_fd = "armed",
                               !.timer_state = Some(Periodic(WRITE_METRICS_PERIOD_SECONDS,
                                                             WRITE_METRICS_PERIOD_SECONDS)),
                               !.log_metrics_calls = @ + 1,
                               !.missed_metrics = IF dump_ok THEN 0 ELSE 1]
         /\ result' = Ok("StartMicroVm", "preboot")
         /\ UNCHANGED <<arch, run, mmio, epoll_at_call, vm_resources, epoll_context, n_attempts>>

---------------------------------------------------------------------------
(* Post-boot actions of the VmmController.                                 *)

\* Where the environment can make rescan_block_device fail.
RescanFailures == {"ok", "open", "lock"}

\* rescan_block_device answering an unknown drive like any other failure.
rescan_block_device_UnknownIsUpdateFailed(v, block, drive_id, f, new_size) ==
    LET at == {i \in 1..Len(v.bus) : v.bus[i].type = "block" /\ v.bus[i].id = drive_id}
    IN  IF get_index_of_drive_id(block, drive_id) = {} \/ f = "open" \/ at = {} \/ f = "lock"
        THEN [err |-> Some(FromDriveError("BlockDeviceUpdateFailed")), bus |-> v.bus]
        ELSE [err |-> None,
              bus |-> [v.bus EXCEPT ![Unwrap(at)] =
                          [@ EXCEPT !.config_space = build_config_space(new_size),
                                    !.interrupt_status = TRUE]]]

\* rescan_block_device refusing a size that is not a whole number of sectors.
rescan_block_device_RejectsOddSize(v, block, drive_id, f, new_size) ==
    LET known == get_index_of_drive_id(block, drive_id) # {}
        at == {i \in 1..Len(v.bus) : v.bus[i].type = "block" /\ v.bus[i].id = drive_id}
    IN  IF ~known THEN [err |-> Some(FromDriveError("InvalidBlockDeviceID")), bus |-> v.bus]
        ELSE IF f = "open" \/ at = {} \/ f = "lock" \/ new_size % SECTOR_SIZE # 0
        THEN [err |-> Some(FromDriveError("BlockDeviceUpdateFailed")), bus |-> v.bus]
        ELSE [err |-> None,
              bus |-> [v.bus EXCEPT ![Unwrap(at)] =
                          [@ EXCEPT !.config_space = build_config_space(new_size),
                                    !.interrupt_status = TRUE]]]

\* rescan_block_device raising the config interrupt before it takes the lock.
rescan_block_device_InterruptBeforeLock(v, block, drive_id, f, new_size) ==
    LET known == get_index_of_drive_id(block, drive_id) # {}
        at == {i \in 1..Len(v.bus) : v.bus[i].type = "block" /\ v.bus[i].id = drive_id}
    IN  IF ~known THEN [err |-> Some(FromDriveError("InvalidBlockDeviceID")), bus |-> v.bus]
        ELSE IF f = "open" \/ at = {}
        THEN [err |-> Some(FromDriveError("BlockDeviceUpdateFailed")), bus |-> v.bus]
        ELSE IF f = "lock"
        THEN [err |-> Some(FromDriveError("BlockDeviceUpdateFailed")),
              bus |-> [v.bus EXCEPT ![Unwrap(at)] = [@ EXCEPT !.interrupt_status = TRUE]]]
        ELSE [err |-> None,
              bus |-> [v.bus EXCEPT ![Unwrap(at)] =
                          [@ EXCEPT !.config_space = build_config_space(new_size),
                                    !.interrupt_status = TRUE]]]

\* rescan_block_device: the answer and the bus as the call leaves it.
rescan_block_device(v, block, drive_id, f, new_size) ==
    LET known == get_index_of_drive_id(block, drive_id) # {}
        at == {i \in 1..Len(v.bus) : v.bus[i].type = "block" /\ v.bus[i].id = drive_id}
    IN  IF ~known THEN [err |-> Some(FromDriveError("InvalidBlockDeviceID")), bus |-> v.bus]
        ELSE IF f = "open" \/ at = {} \/ f = "lock"
        THEN [err |-> Some(FromDriveError("BlockDeviceUpdateFailed")), bus |-> v.bus]
        ELSE [err |-> None,
              bus |-> [v.bus EXCEPT ![Unwrap(at)] =
                          [@ EXCEPT !.config_space = build_config_space(new_size),
                                    !.interrupt_status = TRUE]]]

DriveIds == {"root", "scratch", "no_such_drive"}

\* The file rescan_block_device opens (it tries to, for every known drive).
rescan_opened(block, drive_id) ==
    LET at == get_index_of_drive_id(block, drive_id)
    IN  IF at = {} THEN <<>>
        ELSE <<Opened(drive_id, rescan_file(block[Unwrap(at)]))>>

RescanBlockDevice ==
    /\ AwaitingAction
    /\ \/ Refused("RescanBlockDevice")
       \/ /\ Gate("RescanBlockDevice") = ""
          /\ \E drive_id \in DriveIds, f \in RescanFailures :
             \* the size matters only to a call that gets to read it
             \E new_size \in IF f = "ok" THEN DiskSizes ELSE BootDiskSizes :
               LET r == rescan_block_device(vmm, vm_resources.block, drive_id, f, new_size)
               IN  /\ vmm' = [vmm EXCEPT !.bus = r.bus]
                   /\ result' = WithArg(IF IsSome(r.err)
                                        THEN Err("RescanBlockDevice", Phase, Unwrap(r.err))
                                        ELSE Ok("RescanBlockDevice", Phase),
                                        drive_id)
                   /\ build_trace' = rescan_opened(vm_resources.block, drive_id)
                   /\ UNCHANGED <<arch, run, mmio, epoll_at_call, vm_resources, epoll_context, pc, n_attempts>>

\* Where the environment can make update_block_device_path fail.
UpdatePathFailures == {"ok", "open", "handler", "update", "rescan_open", "rescan_lock"}

\* The paths UpdateBlockDevicePath is given.
NewPaths == {"/img/new"}

\* The sizes the host files have when an UpdateBlockDevicePath is served: one
\* at the new paths, one at the paths the drives were attached with.
HostPaths == {c.path_on_host : c \in BlockConfigs} \cup NewPaths
FileSizes ==
    {[p \in HostPaths |-> IF p \in NewPaths THEN a ELSE b] :
        a \in DiskSizes \cup BootDiskSizes, b \in DiskSizes \cup BootDiskSizes}

\* The size the file at `path` has during the call (history).
SizeAt(drive_id, path, size) ==
    [step |-> "size_at", id |-> drive_id, path |-> path, size |-> size]

\* update_block_device_path recording the new path before it opens the file.
update_block_device_path_PathBeforeOpen(v, block, ctx, drive_id, path, f, size_of) ==
    LET at == get_index_of_drive_id(block, drive_id)
        block2 == [block EXCEPT ![Unwrap(at)].path_on_host = path]
        r == rescan_block_device(v, block2, drive_id,
                                 CASE f = "rescan_open" -> "open"
                                   [] f = "rescan_lock" -> "lock"
                                   [] OTHER -> "ok",
                                 size_of[block2[Unwrap(at)].path_on_host])
    IN  IF at = {}
        THEN [err |-> Some(FromDriveError("InvalidBlockDeviceID")),
              block |-> block, bus |-> v.bus, ctx |-> ctx]
        ELSE IF f = "open"
        THEN [err |-> Some(FromDriveError("CannotOpenBlockDevice")),
              block |-> block2, bus |-> v.bus, ctx |-> ctx]
        ELSE IF f = "handler" \/ device_handler(ctx, "block", drive_id) = None
        THEN [err |-> Some(FromDriveError("EpollHandlerNotFound")),
              block |-> block2, bus |-> v.bus, ctx |-> ctx]
        ELSE IF f = "update"
        THEN [err |-> Some(FromDriveError("BlockDeviceUpdateFailed")),
              block |-> block2, bus |-> v.bus, ctx |-> ctx]
        ELSE [err |-> r.err, block |-> block2, bus |-> r.bus,
              ctx |-> update_disk_image(ctx, drive_id, disk_file(block[Unwrap(at)], path))]

\* update_block_device_path opening the new file before it looks the drive up.
update_block_device_path_OpensFirst(v, block, ctx, drive_id, path, f, size_of) ==
    LET at == get_index_of_drive_id(block, drive_id)
        block2 == [block EXCEPT ![Unwrap(at)].path_on_host = path]
        r == rescan_block_device(v, block2, drive_id,
                                 CASE f = "rescan_open" -> "open"
                                   [] f = "rescan_lock" -> "lock"
                                   [] OTHER -> "ok",
                                 size_of[block2[Unwrap(at)].path_on_host])
    IN  IF f = "open"
        THEN [err |-> Some(FromDriveError("CannotOpenBlockDevice")),
              block |-> block, bus |-> v.bus, ctx |-> ctx]
        ELSE IF at = {}
        THEN [err |-> Some(FromDriveError("InvalidBlockDeviceID")),
              block |-> block, bus |-> v.bus, ctx |-> ctx]
        ELSE IF f = "handler" \/ device_handler(ctx, "block", drive_id) = None
        THEN [err |-> Some(FromDriveError("EpollHandlerNotFound")),
              block |-> block2, bus |-> v.bus, ctx |-> ctx]
        ELSE IF f = "update"
        THEN [err |-> Some(FromDriveError("BlockDeviceUpdateFailed")),
              block |-> block2, bus |-> v.bus, ctx |-> ctx]
        ELSE [err |-> r.err, block |-> block2, bus |-> r.bus,
              ctx |-> update_disk_image(ctx, drive_id, disk_file(block[Unwrap(at)], path))]

\* update_block_device_path rescanning before the config has the new path.
update_block_device_path_RescansOldPath(v, block, ctx, drive_id, path, f, size_of) ==
    LET at == get_index_of_drive_id(block, drive_id)
        block2 == [block EXCEPT ![Unwrap(at)].path_on_host = path]
        r == rescan_block_device(v, block, drive_id,
                                 CASE f = "rescan_open" -> "open"
                                   [] f = "rescan_lock" -> "lock"
                                   [] OTHER -> "ok",
                                 size_of[block[Unwrap(at)].path_on_host])
    IN  IF at = {}
        THEN [err |-> Some(FromDriveError("InvalidBlockDeviceID")),
              block |-> block, bus |-> v.bus, ctx |-> ctx]
        ELSE IF f = "open"
        THEN [err |-> Some(FromDriveError("CannotOpenBlockDevice")),
              block |-> block, bus |-> v.bus, ctx |-> ctx]
        ELSE IF f = "handler" \/ device_handler(ctx, "block", drive_id) = None
        THEN [err |-> Some(FromDriveError("EpollHandlerNotFound")),
              block |-> block2, bus |-> v.bus, ctx |-> ctx]
        ELSE IF f = "update"
        THEN [err |-> Some(FromDriveError("BlockDeviceUpdateFailed")),
              block |-> block2, bus |-> v.bus, ctx |-> ctx]
        ELSE [err |-> r.err, block |-> block2, bus |-> r.bus,
              ctx |-> update_disk_image(ctx, drive_id, disk_file(block[Unwrap(at)], path))]

\* update_block_device_path: the answer, and the Registry's block list, the bus
\* and the epoll context as the call leaves them.
update_block_device_path(v, block, ctx, drive_id, path, f, size_of) ==
    LET at == get_index_of_drive_id(block, drive_id)
        block2 == [block EXCEPT ![Unwrap(at)].path_on_host = path]
        r == rescan_block_device(v, block2, drive_id,
                                 CASE f = "rescan_open" -> "open"
                                   [] f = "rescan_lock" -> "lock"
                                   [] OTHER -> "ok",
                                 size_of[block2[Unwrap(at)].path_on_host])
    IN  IF at = {}
        THEN [err |-> Some(FromDriveError("InvalidBlockDeviceID")),
              block |-> block, bus |-> v.bus, ctx |-> ctx]
        ELSE IF f = "open"
        THEN [err |-> Some(FromDriveError("CannotOpenBlockDevice")),
              block |-> block, bus |-> v.bus, ctx |-> ctx]
        ELSE IF f = "handler" \/ device_handler(ctx, "block", drive_id) = None
        THEN [err |-> Some(FromDriveError("EpollHandlerNotFound")),
              block |-> block2, bus |-> v.bus, ctx |-> ctx]
        ELSE IF f = "update"
        THEN [err |-> Some(FromDriveError("BlockDeviceUpdateFailed")),
              block |-> block2, bus |-> v.bus, ctx |-> ctx]
        ELSE [err |-> r.err, block |-> block2, bus |-> r.bus,
              ctx |-> update_disk_image(ctx, drive_id, disk_file(block[Unwrap(at)], path))]

\* The files update_block_device_path opens: the new disk file and, when it
\* gets as far as the rescan, the file the rescan opens.
update_opened(block, ctx, drive_id, path, f) ==
    LET at == get_index_of_drive_id(block, drive_id)
        block2 == [block EXCEPT ![Unwrap(at)].path_on_host = path]
    IN  IF at = {} THEN <<>>
        ELSE <<Opened(drive_id, disk_file(block[Unwrap(at)], path))>>
             \o (IF f \in {"open", "handler", "update"}
                     \/ device_handler(ctx, "block", drive_id) = None
                  THEN <<>>
                  ELSE rescan_opened(block2, drive_id))

\* UpdateBlockDevicePath: allowed in both phases, it goes to
\* update_block_device_path whatever the phase.
UpdateBlockDevicePath ==
    /\ AwaitingAction
    /\ \E drive_id \in DriveIds, path \in NewPaths, f \in UpdatePathFailures,
          size_of \in FileSizes :
         LET r == update_block_device_path(vmm, vm_resources.block, epoll_context,
                                           drive_id, path, f, size_of)
         IN  /\ vm_resources' = [vm_resources EXCEPT !.block = r.block]
             /\ vmm' = [vmm EXCEPT !.bus = r.bus]
             /\ epoll_context' = r.ctx
             /\ result' = WithArg(IF IsSome(r.err)
                                  THEN Err("UpdateBlockDevicePath", Phase, Unwrap(r.err))
                                  ELSE Ok("UpdateBlockDevicePath", Phase),
                                  drive_id)
             /\ build_trace' = update_opened(vm_resources.block, epoll_context, drive_id, path, f)
                                \o <<SizeAt(drive_id, path, size_of[path])>>
             /\ UNCHANGED <<arch, run, mmio, epoll_at_call, pc, n_attempts>>

\* TokenBucketConfig values, and the rate limiter updates a request can carry:
\* no limiter, one bucket of the two, or both.
TokenBuckets == {1, 2}
RxLimiterUpdates ==
    { None,
      Some([bandwidth |-> None, ops |-> Some(1)]),
      Some([bandwidth |-> Some(1), ops |-> None]),
      Some([bandwidth |-> Some(2), ops |-> Some(2)]) }
TxLimiterUpdates == { None, Some([bandwidth |-> Some(2), ops |-> None]) }

IfaceIds == {"eth0", "no_such_iface"}

\* NetworkInterfaceUpdateConfig
NetworkInterfaceUpdateConfigs ==
    { [iface_id |-> id, rx_rate_limiter |-> rx, tx_rate_limiter |-> tx] :
        id \in IfaceIds, rx \in RxLimiterUpdates, tx \in TxLimiterUpdates }

\* get_handler_arg! taking the bandwidth bucket whatever the metric.
get_handler_arg_AlwaysBandwidth(rate_limiter, metric) ==
    IF rate_limiter = None THEN None ELSE Unwrap(rate_limiter).bandwidth

\* get_handler_arg!: the bucket of a limiter of the update, None when the
\* limiter or the bucket is not given.
get_handler_arg(rate_limiter, metric) ==
    IF rate_limiter = None THEN None ELSE Unwrap(rate_limiter)[metric]

\* NetEpollHandler::patch_rate_limiters: a bucket that is given replaces the
\* handler's, one that is None leaves it.
patch_rate_limiters(h, rx_bytes, rx_ops, tx_bytes, tx_ops) ==
    [h EXCEPT !.rate_limiters =
        [rx_bandwidth |-> IF rx_bytes = None THEN @.rx_bandwidth ELSE rx_bytes,
         rx_ops       |-> IF rx_ops = None THEN @.rx_ops ELSE rx_ops,
         tx_bandwidth |-> IF tx_bytes = None THEN @.tx_bandwidth ELSE tx_bytes,
         tx_ops       |-> IF tx_ops = None THEN @.tx_ops ELSE tx_ops]]

\* VmmActionError::from(NetworkInterfaceError::EpollHandlerNotFound)
NetEpollHandlerNotFound == ActionErr("NetworkConfig", Internal, "EpollHandlerNotFound", "")

\* update_net_rate_limiters patching the handler of every network interface.
update_net_rate_limiters_PatchesAll(ctx, new_cfg, f) ==
    LET handler == device_handler(ctx, "net", new_cfg.iface_id)
    IN  IF f = "handler" \/ handler = None
        THEN [err |-> Some(NetEpollHandlerNotFound), ctx |-> ctx]
        ELSE [err |-> None,
              ctx |-> [i \in 1..Len(ctx) |->
                          IF ctx[i].type = "net"
                          THEN patch_rate_limiters(ctx[i],
                                  get_handler_arg(new_cfg.rx_rate_limiter, "bandwidth"),
                                  get_handler_arg(new_cfg.rx_rate_limiter, "ops"),
                                  get_handler_arg(new_cfg.tx_rate_limiter, "bandwidth"),
                                  get_handler_arg(new_cfg.tx_rate_limiter, "ops"))
                          ELSE ctx[i]]]

\* update_net_rate_limiters: the answer and the epoll context as the call
\* leaves it.
update_net_rate_limiters(ctx, new_cfg, f) ==
    LET handler == device_handler(ctx, "net", new_cfg.iface_id)
    IN  IF f = "handler" \/ handler = None
        THEN [err |-> Some(NetEpollHandlerNotFound), ctx |-> ctx]
        ELSE [err |-> None,
              ctx |-> [ctx EXCEPT ![Unwrap(handler)] =
                          patch_rate_limiters(@,
                              get_handler_arg(new_cfg.rx_rate_limiter, "bandwidth"),
                              get_handler_arg(new_cfg.rx_rate_limiter, "ops"),
                              get_handler_arg(new_cfg.tx_rate_limiter, "bandwidth"),
                              get_handler_arg(new_cfg.tx_rate_limiter, "ops"))]]

\* UpdateNetworkInterface served by a VmmController.
UpdateNetworkInterface ==
    /\ pc = "running"
    /\ \E new_cfg \in NetworkInterfaceUpdateConfigs, f \in {"ok", "handler"} :
         LET r == update_net_rate_limiters(epoll_context, new_cfg, f)
         IN  /\ epoll_context' = r.ctx
             /\ result' = WithArg(IF IsSome(r.err)
                                  THEN Err("UpdateNetworkInterface", Phase, Unwrap(r.err))
                                  ELSE Ok("UpdateNetworkInterface", Phase),
                                  new_cfg)
             /\ build_trace' = <<>>
             /\ UNCHANGED <<arch, run, mmio, epoll_at_call, vm_resources, vmm, pc, n_attempts>>

---------------------------------------------------------------------------

Next ==
    \/ ConfigureBootSource
    \/ ConfigureLogger
    \/ SetVmConfiguration
    \/ InsertBlockDevice
    \/ InsertNetworkDevice
    \/ SetVsockDevice
    \/ StartMicroVm
    \/ RescanBlockDevice
    \/ resolve_boot_source
    \/ create_guest_memory
    \/ vcpu_config
    \/ load_kernel
    \/ clone_cmdline
    \/ setup_metrics
    \/ setup_event_manager
    \/ setup_kvm_vm
    \/ new_vmm
    \/ setup_interrupt_controller
    \/ attach_legacy_devices
    \/ create_vcpus
    \/ attach_block_devices
    \/ attach_block_devices_loop
    \/ attach_net_devices
    \/ attach_vsock_device
    \/ load_cmdline
    \/ configure_system
    \/ register_events
    \/ start_vcpus
    \/ arm_logger_and_metrics

Spec == Init /\ [][Next]_vars

---------------------------------------------------------------------------
(* The pre-boot phase on its own: the Registry under configuration, with    *)
(* the drive actions that are allowed before boot and no build.             *)

NextPreBoot ==
    \/ ConfigureBootSource
    \/ ConfigureLogger
    \/ SetVmConfiguration
    \/ InsertBlockDevice
    \/ InsertNetworkDevice
    \/ SetVsockDevice
    \/ RescanBlockDevice
    \/ UpdateBlockDevicePath

SpecPreBoot == Init /\ [][NextPreBoot]_vars

---------------------------------------------------------------------------
(* The VmmController on its own: VmmController::new is given the Registry,  *)
(* the epoll context and the Vmm of a successful build_microvm.             *)

RECURSIVE AttachBlocks(_, _, _)
AttachBlocks(out, cfgs, size) ==
    IF cfgs = <<>> THEN out
    ELSE AttachBlocks(attach_block_device(out.vmm, out.ctx, Head(cfgs), "ok", size),
                      Tail(cfgs), size)

RECURSIVE AttachNets(_, _)
AttachNets(out, cfgs) ==
    IF cfgs = <<>> THEN out
    ELSE AttachNets(attach_net_device(out.vmm, out.ctx, Head(cfgs), "ok"), Tail(cfgs))

\* What build_microvm returns, and leaves in a fresh epoll context, when every
\* step succeeds.
BuildOk(a, res, size) ==
    LET v0 == [NoVmm EXCEPT
                 !.guest_memory = TRUE,
                 !.vcpu_config = Some([vcpu_count |-> Unwrap(res.vm_config.vcpu_count),
                                       ht_enabled |-> Unwrap(res.vm_config.ht_enabled)]),
                 !.kernel_loaded = TRUE,
                 !.kernel_cmdline = boot_cmdline_clone(Unwrap(res.boot_source).cmdline).line,
                 !.event_manager = TRUE, !.vm = TRUE, !.mmio_device_manager = TRUE,
                 !.pio_device_manager = (a = "x86_64"),
                 !.irqchip = TRUE, !.legacy_devices = TRUE]
        e0 == add_epollin_event(add_epollin_event(<<>>, "WriteMetrics"), "PollyEvent")
        b == AttachBlocks(Outcome(None, attach_block_root_args(v0, res.block).vmm, e0),
                          res.block, size)
        n == AttachNets(b, res.network_interface)
        s == IF res.vsock = None THEN n
             ELSE attach_vsock(n.vmm, n.ctx, Unwrap(res.vsock), "ok")
    IN  [vmm |-> [s.vmm EXCEPT
                    !.guest_cmdline = IF a = "x86_64" THEN Some(s.vmm.kernel_cmdline)
                                      ELSE None,
                    !.system_configured = TRUE, !.exit_evt = TRUE,
                    !.vcpus = "started", !.write_metrics_event_fd = "armed",
                    !.timer_state = Some(Periodic(WRITE_METRICS_PERIOD_SECONDS,
                                                  WRITE_METRICS_PERIOD_SECONDS)),
                    !.log_metrics_calls = 1],
         ctx |-> add_epollin_event(s.ctx, "Exit")]

\* The Registries the controller is explored with.
ControllerBlockLists ==
    { <<>>,
      <<BlockDeviceConfig("root", "/img/root", TRUE, None, FALSE, None)>>,
      <<BlockDeviceConfig("root", "/img/root", TRUE, Some("0eaa91a0-01"), TRUE, None),
        BlockDeviceConfig("scratch", "/img/scratch", FALSE, None, TRUE, None)>>,
      <<BlockDeviceConfig("scratch", "/img/scratch", FALSE, None, TRUE, None),
        BlockDeviceConfig("root", "/img/root", TRUE, None, FALSE, None)>> }

ControllerNetLists ==
    { <<>>,
      <<NetworkInterfaceConfig("eth0", "tap0", None, None),
        NetworkInterfaceConfig("eth1", "tap1", Some("rl"), None)>> }

ControllerRegistries ==
    { [vm_config |-> DefaultVmConfig, boot_source |-> Some(BootConfig("console=ttyS0")),
       block |-> b, network_interface |-> n, vsock |-> v] :
        b \in ControllerBlockLists, n \in ControllerNetLists,
        v \in {None, Some(VsockDeviceConfig)} }

InitController ==
    /\ arch \in {"x86_64", "aarch64"}
    /\ vm_resources \in ControllerRegistries
    /\ \E size \in BootDiskSizes :
         /\ vmm = BuildOk(arch, vm_resources, size).vmm
         /\ epoll_context = BuildOk(arch, vm_resources, size).ctx
    /\ pc = "running"
    /\ result = Ok("StartMicroVm", "preboot")
    /\ build_trace = <<>>
    /\ n_attempts = 1
    /\ epoll_at_call = <<>>
    /\ run = NotRun
    /\ mmio = Quiet

NextController ==
    \/ ConfigureBootSource
    \/ ConfigureLogger
    \/ SetVmConfiguration
    \/ InsertBlockDevice
    \/ InsertNetworkDevice
    \/ SetVsockDevice
    \/ StartMicroVm
    \/ RescanBlockDevice
    \/ UpdateBlockDevicePath

SpecController == InitController /\ [][NextController]_vars

---------------------------------------------------------------------------
(* VmmController::run: the control loop of a running controller.           *)

\* Exit codes of the process.
FC_EXIT_CODE_OK == 0
FC_EXIT_CODE_GENERIC_ERROR == 1

\* The codes a ControlEventHandler may return in Err (u8).
HandlerExitCodes == {0, 2, 255}

\* Result<(), u8>: what handle_control_event can return.
HandlerResults ==
    {[status |-> "Ok", code |-> None]}
        \cup {[status |-> "Err", code |-> Some(c)] : c \in HandlerExitCodes}

\* What run_event_loop can return.
EventLoopResults == {"Err", "Break", "ControlAction"}

\* i32::from(u8): every u8 value is an i32 value.
i32_from(exit_code) == exit_code % 256

\* The match on run_event_loop going to the handler for every Ok exit.
AfterEventLoop_HandlerOnBreak(r) ==
    IF r = "Err"
    THEN [pc |-> "stop", exit_code |-> Some(FC_EXIT_CODE_GENERIC_ERROR)]
    ELSE [pc |-> "handle_control_event", exit_code |-> None]

\* The match on run_event_loop breaking with OK on an error too.
AfterEventLoop_ErrIsOk(r) ==
    IF r = "ControlAction"
    THEN [pc |-> "handle_control_event", exit_code |-> None]
    ELSE [pc |-> "stop", exit_code |-> Some(FC_EXIT_CODE_OK)]

\* The match on what run_event_loop returned: where run goes and, when it
\* breaks, the exit code.
AfterEventLoop(r) ==
    IF r = "Err"
    THEN [pc |-> "stop", exit_code |-> Some(FC_EXIT_CODE_GENERIC_ERROR)]
    ELSE IF r = "Break"
    THEN [pc |-> "stop", exit_code |-> Some(FC_EXIT_CODE_OK)]
    ELSE [pc |-> "handle_control_event", exit_code |-> None]

\* The handler's Err taken for an Ok: the loop goes on.
AfterHandler_IgnoresErr(ret) == [pc |-> "run_event_loop", exit_code |-> None]

\* `if let Err(exit_code) = handle_control_event(..) { break exit_code; }`
AfterHandler(ret) ==
    IF ret.status = "Ok"
    THEN [pc |-> "run_event_loop", exit_code |-> None]
    ELSE [pc |-> "stop", exit_code |-> ret.code]

\* self.run_event_loop() returns.
run_event_loop ==
    /\ pc = "run_event_loop"
    /\ \E r \in EventLoopResults :
         /\ r = "ControlAction" => run.control_actions < MaxControlActions
         /\ pc' = AfterEventLoop(r).pc
         /\ run' = [run EXCEPT !.exit_reason = r,
                               !.exit_code = AfterEventLoop(r).exit_code,
                               !.waits = @ + 1,
                               !.control_actions = IF r = "ControlAction" THEN @ + 1 ELSE @]
    /\ UNCHANGED <<arch, vm_resources, epoll_context, vmm, result, build_trace, n_attempts,
                   epoll_at_call, mmio>>

\* external_handler.handle_control_event(&mut self) returns.
handle_control_event ==
    /\ pc = "handle_control_event"
    /\ \E ret \in HandlerResults :
         /\ pc' = AfterHandler(ret).pc
         /\ run' = [run EXCEPT !.handler_ret = ret,
                               !.exit_code = AfterHandler(ret).exit_code,
                               !.handler_calls = @ + 1]
    /\ UNCHANGED <<arch, vm_resources, epoll_context, vmm, result, build_trace, n_attempts,
                   epoll_at_call, mmio>>

\* self.stop(i32::from(exit_code)): Vmm::stop ends the process.
stop ==
    /\ pc = "stop"
    /\ pc' = "stopped"
    /\ run' = [run EXCEPT !.stop_calls = Append(@, i32_from(Unwrap(run.exit_code)))]
    /\ UNCHANGED <<arch, vm_resources, epoll_context, vmm, result, build_trace, n_attempts,
                   epoll_at_call, mmio>>

\* run is called on a controller just made by VmmController::new.
InitRun ==
    /\ arch \in {"x86_64", "aarch64"}
    /\ vm_resources \in ControllerRegistries
    /\ \E size \in BootDiskSizes :
         /\ vmm = BuildOk(arch, vm_resources, size).vmm
         /\ epoll_context = BuildOk(arch, vm_resources, size).ctx
    /\ pc = "run_event_loop"
    /\ result = Ok("StartMicroVm", "preboot")
    /\ build_trace = <<>>
    /\ n_attempts = 1
    /\ epoll_at_call = <<>>
    /\ run = NotRun
    /\ mmio = Quiet

NextRun ==
    \/ run_event_loop
    \/ handle_control_event
    \/ stop

SpecRun == InitRun /\ [][NextRun]_vars

\* After the loop, stop is the next statement of run: it is taken.
SpecRunFair == SpecRun /\ WF_vars(stop)

---------------------------------------------------------------------------
(* rescan_block_device step by step, beside a vCPU thread.                 *)

\* The Mutex of bus device `id` is held by `holder`.
Held(id, holder) == [id |-> id, holder |-> holder]
Free(lock, id) == ~\E l \in lock : l.id = id

\* An access to bus device `id` and the registers as the access leaves them.
Access(step, id, dev) ==
    [step |-> step, id |-> id, config_space |-> dev.config_space,
     interrupt_status |-> dev.interrupt_status]

\* The guard dropped as soon as the config space is written.
held_after_write_Released(lock, id) == lock \ {Held(id, "control")}

\* `busdev`, the MutexGuard, lives to the end of the match arm: the lock is
\* still held after busdev.write.
held_after_write(lock, id) == lock

\* The call up to device.lock(): the drive is looked up, its file is opened
\* and measured, the bus device is looked up.
rescan_block_device_call ==
    /\ pc = "running"
    /\ \E drive_id \in DriveIds, f \in RescanFailures :
       \E new_size \in IF f = "open" THEN BootDiskSizes ELSE DiskSizes :
         LET block == vm_resources.block
             reaches_lock == /\ get_index_of_drive_id(block, drive_id) # {}
                             /\ f # "open"
                             /\ BlockOnBus(vmm.bus, drive_id) # {}
             r == rescan_block_device(vmm, block, drive_id, f, new_size)
         IN  /\ build_trace' = rescan_opened(block, drive_id)
             /\ IF reaches_lock
                THEN /\ pc' = "rescan_block_device.lock"
                     /\ mmio' = [mmio EXCEPT !.call = Some([drive_id |-> drive_id, f |-> f,
                                                            new_size |-> new_size]),
                                             !.log = <<>>]
                     /\ UNCHANGED result
                ELSE /\ result' = WithArg(Err("RescanBlockDevice", Phase, Unwrap(r.err)),
                                          drive_id)
                     /\ mmio' = [mmio EXCEPT !.log = <<>>]
                     /\ UNCHANGED pc
    /\ UNCHANGED <<arch, run, vmm, epoll_at_call, vm_resources, epoll_context, n_attempts>>

\* device.lock(): blocks while the vCPU thread holds the Mutex; a poisoned
\* Mutex ends the call with BlockDeviceUpdateFailed.
rescan_block_device_lock ==
    /\ pc = "rescan_block_device.lock"
    /\ LET call == Unwrap(mmio.call)
       IN  /\ Free(mmio.lock, call.drive_id)
           /\ IF call.f = "lock"
              THEN /\ pc' = "running"
                   /\ result' = WithArg(Err("RescanBlockDevice", "postboot",
                                            FromDriveError("BlockDeviceUpdateFailed")),
                                        call.drive_id)
                   /\ mmio' = [mmio EXCEPT !.call = None]
              ELSE /\ pc' = "rescan_block_device.write"
                   /\ mmio' = [mmio EXCEPT !.lock = @ \cup {Held(call.drive_id, "control")}]
                   /\ UNCHANGED result
    /\ UNCHANGED <<arch, run, vmm, epoll_at_call, vm_resources, epoll_context, build_trace,
                   n_attempts>>

\* busdev.write(MMIO_CFG_SPACE_OFF, &data[..])
rescan_block_device_write ==
    /\ pc = "rescan_block_device.write"
    /\ LET call == Unwrap(mmio.call)
           at == Unwrap(BlockOnBus(vmm.bus, call.drive_id))
           dev == [vmm.bus[at] EXCEPT !.config_space = build_config_space(call.new_size)]
       IN  /\ vmm' = [vmm EXCEPT !.bus[at] = dev]
           /\ mmio' = [mmio EXCEPT !.lock = held_after_write(@, call.drive_id),
                                   !.log = Append(@, Access("write", call.drive_id, dev))]
    /\ pc' = "rescan_block_device.interrupt"
    /\ UNCHANGED <<arch, run, result, epoll_at_call, vm_resources, epoll_context, build_trace,
                   n_attempts>>

\* busdev.interrupt(VIRTIO_MMIO_INT_CONFIG)
rescan_block_device_interrupt ==
    /\ pc = "rescan_block_device.interrupt"
    /\ LET call == Unwrap(mmio.call)
           at == Unwrap(BlockOnBus(vmm.bus, call.drive_id))
           dev == [vmm.bus[at] EXCEPT !.interrupt_status = TRUE]
       IN  /\ vmm' = [vmm EXCEPT !.bus[at] = dev]
           /\ mmio' = [mmio EXCEPT !.log = Append(@, Access("interrupt", call.drive_id, dev))]
    /\ pc' = "rescan_block_device.return"
    /\ UNCHANGED <<arch, run, result, epoll_at_call, vm_resources, epoll_context, build_trace,
                   n_attempts>>

\* Ok(()): the guard is dropped and the action is answered.
rescan_block_device_return ==
    /\ pc = "rescan_block_device.return"
    /\ LET call == Unwrap(mmio.call)
       IN  /\ mmio' = [mmio EXCEPT !.lock = @ \ {Held(call.drive_id, "control")},
                                   !.call = None]
           /\ result' = WithArg(Ok("RescanBlockDevice", "postboot"), call.drive_id)
    /\ pc' = "running"
    /\ UNCHANGED <<arch, run, vmm, epoll_at_call, vm_resources, epoll_context, build_trace,
                   n_attempts>>

\* The vCPU thread leaves KVM_RUN with an MMIO access to a block device.
vcpu_mmio_exit ==
    /\ pc \notin {"preboot", "stopped"}
    /\ mmio.vcpu.pos = "guest"
    /\ mmio.accesses < MaxMmioAccesses
    /\ \E i \in 1..Len(vmm.bus) :
         /\ vmm.bus[i].type = "block"
         /\ mmio' = [mmio EXCEPT !.vcpu = [pos |-> "lock", id |-> vmm.bus[i].id]]
    /\ UNCHANGED <<arch, run, vmm, pc, result, epoll_at_call, vm_resources, epoll_context,
                   build_trace, n_attempts>>

\* The bus takes the device's Mutex for the vCPU thread.
vcpu_lock ==
    /\ mmio.vcpu.pos = "lock"
    /\ Free(mmio.lock, mmio.vcpu.id)
    /\ mmio' = [mmio EXCEPT !.lock = @ \cup {Held(mmio.vcpu.id, "vcpu")},
                            !.vcpu.pos = "access"]
    /\ UNCHANGED <<arch, run, vmm, pc, result, epoll_at_call, vm_resources, epoll_context,
                   build_trace, n_attempts>>

\* The device serves the access, the Mutex is released and the vCPU goes back
\* to the guest.
vcpu_access ==
    /\ mmio.vcpu.pos = "access"
    /\ LET id == mmio.vcpu.id
           at == Unwrap(BlockOnBus(vmm.bus, id))
       IN  mmio' = [mmio EXCEPT !.lock = @ \ {Held(id, "vcpu")},
                                !.vcpu = [pos |-> "guest", id |-> ""],
                                !.accesses = @ + 1,
                                !.log = Append(@, Access("access", id, vmm.bus[at]))]
    /\ UNCHANGED <<arch, run, vmm, pc, result, epoll_at_call, vm_resources, epoll_context,
                   build_trace, n_attempts>>

NextRescanLock ==
    \/ rescan_block_device_call
    \/ rescan_block_device_lock
    \/ rescan_block_device_write
    \/ rescan_block_device_interrupt
    \/ rescan_block_device_return
    \/ vcpu_mmio_exit
    \/ vcpu_lock
    \/ vcpu_access

SpecRescanLock == InitController /\ [][NextRescanLock]_vars

\* The network actions of a running controller.  update_net_rate_limiters
\* reads and writes the net handlers only, which no drive action touches, so
\* the rate limiter updates are explored apart from the drive actions.
NextNetUpdate ==
    \/ InsertNetworkDevice
    \/ UpdateNetworkInterface

SpecNetUpdate == InitController /\ [][NextNetUpdate]_vars

\* A build that has just succeeded in a fresh epoll context left what BuildOk says.
BuildOkAgreesWithBuild ==
    (pc = "running" /\ result = Ok("StartMicroVm", "preboot") /\ n_attempts = 1)
        => \E size \in BootDiskSizes :
             /\ [vmm EXCEPT !.missed_metrics = 0] = BuildOk(arch, vm_resources, size).vmm
             /\ epoll_context = BuildOk(arch, vm_resources, size).ctx

---------------------------------------------------------------------------
(* Properties.                                                             *)

\* The last action was a StartMicroVm that build_microvm answered with an error.
FailedStart == pc = "preboot" /\ result.action = "StartMicroVm" /\ result.status = "Err"

\* Positions of a step in build_trace.
Pos(step) == {i \in 1..Len(build_trace) : build_trace[i].step = step}
Completed(step) == Pos(step) # {}
Before(first, second) == \A j \in Pos(second) : \E i \in Pos(first) : i < j

IsPrefix(s, t) == Len(s) <= Len(t) /\ \A i \in 1..Len(s) : s[i] = t[i]

\* C1: a build_microvm call that fails after the metrics timer was set up
\* returns no Vmm and leaves the primary epoll context as it received it: no
\* WriteMetrics or PollyEvent registration and no device tokens are left over.
C1_FailedBuildReleasesEpoll ==
    (FailedStart /\ Completed("setup_metrics"))
        => (vmm = NoVmm /\ epoll_context = epoll_at_call)

\* C1: a call failed past the metrics timer and registrations are left over.
C1_FailedPastMetricsTimer ==
    /\ FailedStart
    /\ Completed("setup_metrics")
    /\ vmm = NoVmm
    /\ \E i \in 1..Len(epoll_context) :
         i > Len(epoll_at_call) /\ epoll_context[i].token = "WriteMetrics"

\* C2: build_microvm always ends by returning Ok(Vmm) or an error of kind User
\* or Internal; the control thread never ends up aborted inside it.
C2_BuildReturnsOkOrTypedError ==
    /\ pc # "panicked"
    /\ (result.action = "StartMicroVm" /\ result.status = "Err")
           => result.err.kind \in {User, Internal}

\* C2: the process aborted inside build_microvm, no answer given.
C2_AbortedInsideBuild ==
    pc = "panicked" /\ result.action = "StartMicroVm" /\ result.status = "Pending"

\* C3: once a start has succeeded the microVM stays running, and every later
\* StartMicroVm is answered MicroVMAlreadyRunning (kind User) and leaves the
\* Vmm, the epoll context and the Registry as they are: no second Vmm is built.
C3_StartSucceedsAtMostOnce ==
    [][pc = "running" =>
          /\ pc' = "running"
          /\ result'.action = "StartMicroVm" =>
                /\ result' = Err("StartMicroVm", "postboot",
                                 ActionErr("StartMicrovm", User, "MicroVMAlreadyRunning", ""))
                /\ UNCHANGED <<vmm, epoll_context, vm_resources, n_attempts>>]_vars

\* C3: a StartMicroVm was refused on a running microVM.
C3_SecondStartRefused ==
    /\ pc = "running"
    /\ result = Err("StartMicroVm", "postboot",
                    ActionErr("StartMicrovm", User, "MicroVMAlreadyRunning", ""))
    /\ vmm.vcpus = "started"

\* C4: on a booted microVM each of the six pre-boot-only actions is answered
\* OperationNotSupportedPostBoot and leaves the Registry unchanged.
C4_PreBootActionsRefusedPostBoot ==
    [][(pc = "running"
        /\ result'.action \in {"ConfigureBootSource", "ConfigureLogger", "SetVmConfiguration",
                               "InsertBlockDevice", "InsertNetworkDevice", "SetVsockDevice"})
          => (/\ result' = Err(result'.action, "postboot", OperationNotSupportedPostBoot)
              /\ vm_resources' = vm_resources)]_vars

\* C4: an InsertBlockDevice was refused on a running microVM.
C4_InsertRefusedPostBoot ==
    /\ pc = "running"
    /\ result = Err("InsertBlockDevice", "postboot", OperationNotSupportedPostBoot)

\* C5: before boot RescanBlockDevice is answered OperationNotSupportedPreBoot
\* and touches no device: no config space is written, no interrupt raised.
C5_RescanRefusedPreBoot ==
    [][(pc = "preboot" /\ result'.action = "RescanBlockDevice")
          => (/\ result' = Err("RescanBlockDevice", "preboot", OperationNotSupportedPreBoot)
              /\ vmm' = vmm
              /\ vmm'.bus = <<>>)]_vars

\* C5: a RescanBlockDevice of a configured drive was refused before boot.
C5_RescanOfKnownDriveRefused ==
    /\ pc = "preboot"
    /\ result = Err("RescanBlockDevice", "preboot", OperationNotSupportedPreBoot)
    /\ get_index_of_drive_id(vm_resources.block, "root") # {}

\* The Registry's command line holds the boot arguments and nothing else.
RegistryCmdlinePristine ==
    IsSome(vm_resources.boot_source)
        => Unwrap(vm_resources.boot_source).cmdline \in {<<a>> : a \in BootArgs}

\* C6: no step of a build_microvm call, from its start to its answer, changes
\* the Registry; root= arguments and device fragments never reach the
\* Registry's command line.
C6_BuildLeavesRegistryUnchanged ==
    [][/\ (InBuild \/ pc' = "boot_source") => vm_resources' = vm_resources
       /\ RegistryCmdlinePristine']_vars

\* C6: a microVM was built with a root device and the Vmm's command line has
\* arguments the Registry's does not.
C6_CloneDivergedFromRegistry ==
    /\ pc = "running"
    /\ \E i \in 1..Len(vmm.kernel_cmdline) : vmm.kernel_cmdline[i] = "root=/dev/vda"
    /\ \E i \in 1..Len(vmm.kernel_cmdline) : vmm.kernel_cmdline[i] \in MmioFragments
    /\ Len(Unwrap(vm_resources.boot_source).cmdline) = 1

\* C7: with no boot source the first step of build_microvm fails with
\* MissingKernelConfig (kind User): no step has completed, no Vmm part exists
\* and the epoll context is the one the call received.
C7_MissingKernelConfigFirst ==
    [][(pc = "boot_source" /\ vm_resources.boot_source = None)
          => (/\ build_trace = <<>> /\ vmm = NoVmm /\ epoll_context = epoll_at_call
              /\ pc' = "preboot"
              /\ result' = Err("StartMicroVm", "preboot",
                               ActionErr("StartMicrovm", User, "MissingKernelConfig", ""))
              /\ build_trace' = <<>> /\ vmm' = NoVmm
              /\ epoll_context' = epoll_context)]_vars

\* C7: a StartMicroVm failed for want of a boot source.
C7_FailedMissingKernelConfig ==
    /\ FailedStart
    /\ result.err.variant = "MissingKernelConfig"
    /\ vm_resources.boot_source = None

\* C8: with no mem_size_mib build_microvm fails with
\* GuestMemory(MemoryNotInitialized); a GuestMemory or KernelLoader failure
\* comes before the metrics timer and the event manager are set up and leaves
\* the epoll context as the call received it.
C8_EarlyFailuresLeaveEpollUnchanged ==
    [][/\ (pc = "create_guest_memory" /\ vm_resources.vm_config.mem_size_mib = None)
             => (/\ pc' = "preboot"
                 /\ result' = Err("StartMicroVm", "preboot",
                                  ActionErr("StartMicrovm", Internal, "GuestMemory",
                                            "MemoryNotInitialized")))
       /\ (InBuild /\ pc' = "preboot" /\ result'.err.variant \in {"GuestMemory", "KernelLoader"})
             => (/\ epoll_context' = epoll_at_call
                 /\ ~Completed("setup_metrics")
                 /\ ~Completed("setup_event_manager"))]_vars

\* C8: a StartMicroVm failed because the memory size was absent.
C8_FailedMemoryNotInitialized ==
    /\ FailedStart
    /\ result.err.variant = "GuestMemory"
    /\ result.err.cause = "MemoryNotInitialized"
    /\ vm_resources.vm_config.mem_size_mib = None
    /\ IsSome(vm_resources.boot_source)

\* C9: x86_64 sets up the irqchip, then the legacy devices, then the vCPUs;
\* aarch64 the vCPUs, then the interrupt controller, then the legacy devices.
\* A later one is never there without the earlier ones.
C9_ArchSetupOrder ==
    IF arch = "x86_64"
    THEN /\ Before("setup_interrupt_controller", "attach_legacy_devices")
         /\ Before("attach_legacy_devices", "create_vcpus")
         /\ vmm.legacy_devices => vmm.irqchip
         /\ vmm.vcpus # "none" => vmm.legacy_devices
    ELSE /\ Before("create_vcpus", "setup_interrupt_controller")
         /\ Before("setup_interrupt_controller", "attach_legacy_devices")
         /\ vmm.irqchip => vmm.vcpus # "none"
         /\ vmm.legacy_devices => vmm.irqchip

\* C9: an aarch64 build has just succeeded, the three steps in its trace.
C9_Aarch64Built ==
    /\ arch = "aarch64"
    /\ pc = "running"
    /\ Completed("create_vcpus")
    /\ Completed("setup_interrupt_controller")
    /\ Completed("attach_legacy_devices")

\* The devices of the Registry in attachment order: the block devices, the
\* network interfaces, the vsock device.
Device(type, id) == [type |-> type, id |-> id]
ExpectedAttachOrder ==
    [i \in 1..Len(vm_resources.block) |-> Device("block", vm_resources.block[i].drive_id)]
    \o [i \in 1..Len(vm_resources.network_interface) |->
           Device("net", vm_resources.network_interface[i].iface_id)]
    \o (IF IsSome(vm_resources.vsock)
        THEN <<Device("vsock", Unwrap(vm_resources.vsock).vsock_id)>> ELSE <<>>)

\* The devices on the bus, and the devices build_trace saw attached.
BusOrder == [i \in 1..Len(vmm.bus) |-> Device(vmm.bus[i].type, vmm.bus[i].id)]
IsAttachEv(e) == e.step \in {"attach_block", "attach_net", "attach_vsock"}
AttachedOrder ==
    LET evs == SelectSeq(build_trace, IsAttachEv)
    IN  [i \in 1..Len(evs) |->
           Device(CASE evs[i].step = "attach_block" -> "block"
                    [] evs[i].step = "attach_net" -> "net"
                    [] OTHER -> "vsock",
                  evs[i].id)]
IsFragment(s) == s \in MmioFragments
\* The StartMicrovmError variants a device's attachment can end with.
AttachErrorVariants ==
    {"OpenBlockDevice", "KernelCmdline", "CreateRateLimiter", "CreateBlockDevice",
     "RegisterBlockDevice", "NetDeviceNotConfigured", "CreateNetDevice",
     "RegisterNetDevice", "CreateVsockBackend", "CreateVsockDevice",
     "RegisterVsockDevice"}

\* C10: devices are attached in the order block devices, network interfaces,
\* vsock, each list in Registry order; a failed attachment leaves the later
\* devices unattached; the command line written to guest memory has one
\* fragment per attached device, in that order, and is the Vmm's final one.
C10_AttachOrder ==
    /\ IsPrefix(BusOrder, ExpectedAttachOrder)
    /\ IsPrefix(AttachedOrder, ExpectedAttachOrder)
    /\ \A i \in 1..Len(vmm.bus) : vmm.bus[i].slot = i - 1
    /\ pc = "running" => BusOrder = ExpectedAttachOrder
    /\ (pc = "running" /\ arch = "x86_64") => IsSome(vmm.guest_cmdline)
    /\ (FailedStart /\ Completed("attach_block_devices")
           /\ result.err.variant \in AttachErrorVariants)
           => Len(AttachedOrder) < Len(ExpectedAttachOrder)
    /\ IsSome(vmm.guest_cmdline)
           => /\ BusOrder = ExpectedAttachOrder
              /\ SelectSeq(Unwrap(vmm.guest_cmdline), IsFragment)
                     = [i \in 1..Len(vmm.bus) |-> MmioFragment(i - 1)]
              /\ vmm.kernel_cmdline = Unwrap(vmm.guest_cmdline)

\* C10: an x86_64 microVM runs with two block devices, two network interfaces
\* and a vsock device, its command line in guest memory.
C10_AllDevicesAttached ==
    /\ arch = "x86_64"
    /\ pc = "running"
    /\ IsSome(vmm.guest_cmdline)
    /\ Len(vm_resources.block) = 2
    /\ Len(vm_resources.network_interface) = 2
    /\ IsSome(vm_resources.vsock)
    /\ Len(vmm.bus) = 5

\* build_microvm is past attach_block_devices, or has returned the Vmm.
PastBlockAttach ==
    pc \in {"attach_net_devices", "attach_vsock_device", "load_cmdline", "configure_system",
            "register_events", "start_vcpus", "arm_logger_and_metrics", "running"}

\* The positions of an argument on the Vmm's command line.
ArgPos(arg) == {i \in 1..Len(vmm.kernel_cmdline) : vmm.kernel_cmdline[i] = arg}
\* The root configs of the Registry, and the root= arguments there are.
RootConfigs == {i \in 1..Len(vm_resources.block) : vm_resources.block[i].is_root_device}
PartUuids == {"0eaa91a0-01"}
RootArgs == {"root=/dev/vda"} \cup {"root=PARTUUID=" \o u : u \in PartUuids}

\* C11: with a root block device that has no PARTUUID, once the block devices
\* are attached the command line has root=/dev/vda followed at once by ro for
\* a read-only root and rw otherwise, both before every device fragment.
C11_RootDevVda ==
    (PastBlockAttach
     /\ RootConfigs # {}
     /\ \A r \in RootConfigs : vm_resources.block[r].partuuid = None)
        => \E k \in ArgPos("root=/dev/vda") :
             /\ k < Len(vmm.kernel_cmdline)
             /\ \A r \in RootConfigs :
                  vmm.kernel_cmdline[k + 1]
                      = (IF vm_resources.block[r].is_read_only THEN "ro" ELSE "rw")
             /\ \A i \in 1..Len(vmm.kernel_cmdline) :
                  vmm.kernel_cmdline[i] \in MmioFragments => i > k + 1

\* C11: a microVM runs on a read-only root without PARTUUID, another block
\* device attached before it.
C11_ReadOnlyRootAttached ==
    /\ pc = "running"
    /\ Len(vm_resources.block) = 2
    /\ vm_resources.block[2].is_root_device
    /\ vm_resources.block[2].is_read_only
    /\ vm_resources.block[2].partuuid = None
    /\ ArgPos("root=/dev/vda") # {}
    /\ ArgPos("ro") # {}
    /\ Len(vmm.bus) >= 2

\* C12: with a root block device of PARTUUID u, once the block devices are
\* attached the command line has root=PARTUUID=u exactly once, followed at
\* once by ro or rw after that device's read-only flag, and no root=/dev/vda.
C12_RootPartUuid ==
    \A r \in RootConfigs :
        (PastBlockAttach /\ IsSome(vm_resources.block[r].partuuid))
            => LET at == ArgPos("root=PARTUUID=" \o Unwrap(vm_resources.block[r].partuuid))
               IN  /\ Cardinality(at) = 1
                   /\ \A k \in at :
                        /\ k < Len(vmm.kernel_cmdline)
                        /\ vmm.kernel_cmdline[k + 1]
                               = (IF vm_resources.block[r].is_read_only THEN "ro" ELSE "rw")
                   /\ ArgPos("root=/dev/vda") = {}

\* C12: a microVM runs on a root with a PARTUUID, attached after another
\* block device.
C12_PartUuidRootAttached ==
    /\ pc = "running"
    /\ Len(vm_resources.block) = 2
    /\ vm_resources.block[2].is_root_device
    /\ IsSome(vm_resources.block[2].partuuid)
    /\ ArgPos("root=PARTUUID=0eaa91a0-01") # {}
    /\ Len(vmm.bus) >= 2

\* C13: when no block config is the root device, the command line never gets a
\* root=/dev/vda or root=PARTUUID= argument, whatever PARTUUID a config has.
C13_NoRootNoRootArg ==
    RootConfigs = {}
        => \A i \in 1..Len(vmm.kernel_cmdline) : vmm.kernel_cmdline[i] \notin RootArgs

\* C13: a microVM runs with no root device and a block device that has a
\* PARTUUID.
C13_NonRootPartUuidAttached ==
    /\ pc = "running"
    /\ RootConfigs = {}
    /\ \E i \in 1..Len(vm_resources.block) : IsSome(vm_resources.block[i].partuuid)
    /\ NumOnBus(vmm, "block") = Len(vm_resources.block)

\* C14: a start that fails on a command-line overflow (a root= argument, a
\* ro/rw flag or a device fragment that does not fit, or CommandLineOverflow
\* when the line is loaded into guest memory) is a StartMicrovm error of kind
\* User; LoadCommandline with any other cause is kind Internal.
C14_OverflowIsUserError ==
    FailedStart
        => /\ result.err.cause \in {"CommandLineOverflow", "Cmdline"}
                => result.err.domain = "StartMicrovm" /\ result.err.kind = User
           /\ (result.err.variant = "LoadCommandline"
               /\ result.err.cause # "CommandLineOverflow")
                => result.err.kind = Internal

\* C14: a StartMicroVm failed because a device's fragment did not fit on the
\* command line.
C14_FragmentOverflowed ==
    /\ FailedStart
    /\ result.err.variant = "RegisterBlockDevice"
    /\ result.err.cause = "Cmdline"

\* C15: every StartMicrovm error has the kind the taxonomy gives its variant:
\* missing kernel, bad kernel image, command-line error, tap not configured,
\* block file unusable, vsock backend failure and "already running" are User;
\* VM configuration, guest memory, rate limiter, vsock device, MMIO
\* registration of any device type and the wrapped irqchip/legacy/vCPU
\* failures are Internal; only LoadCommandline looks at the cause.
C15_KindFollowsVariant ==
    (result.status = "Err" /\ result.err.domain = "StartMicrovm")
        => LET variant == result.err.variant
           IN  IF variant \in {"MissingKernelConfig", "KernelLoader", "KernelCmdline",
                               "NetDeviceNotConfigured", "OpenBlockDevice",
                               "CreateBlockDevice", "CreateNetDevice",
                               "CreateVsockBackend", "MicroVMAlreadyRunning"}
               THEN result.err.kind = User
               ELSE IF variant \in {"ConfigureVm", "GuestMemory", "CreateRateLimiter",
                                    "CreateVsockDevice", "RegisterBlockDevice",
                                    "RegisterNetDevice", "RegisterVsockDevice", "Internal"}
               THEN result.err.kind = Internal
               ELSE /\ variant = "LoadCommandline"
                    /\ result.err.kind
                           = (IF result.err.cause = "CommandLineOverflow" THEN User ELSE Internal)

\* C15: a StartMicroVm failed because a block device's rate limiter could not
\* be constructed.
C15_FailedCreateRateLimiter ==
    /\ FailedStart
    /\ result.err.variant = "CreateRateLimiter"
    /\ result.err.kind = Internal

\* The TapError that open_tap returned during the last build, if it failed.
OpenTapError == {build_trace[i].id : i \in Pos("open_tap")}

\* C16: a start that fails because a network interface's tap cannot be opened
\* is NetDeviceNotConfigured with the kind of the tap error's cause: User for
\* OpenTun, CreateTap and InvalidIfname, Internal for IoctlError and
\* CreateSocket.
C16_TapErrorKind ==
    (FailedStart /\ OpenTapError # {})
        => /\ result.err.variant = "NetDeviceNotConfigured"
           /\ \A te \in OpenTapError :
                result.err.kind
                    = (IF te \in {"OpenTun", "CreateTap", "InvalidIfname"} THEN User ELSE Internal)

\* C16: a StartMicroVm failed because opening the tap failed in an ioctl.
C16_TapIoctlFailed ==
    /\ FailedStart
    /\ "IoctlError" \in OpenTapError
    /\ result.err.variant = "NetDeviceNotConfigured"

\* The drive ids the Registry knows, and the bus positions of a drive's block
\* device.
KnownDrives == {vm_resources.block[i].drive_id : i \in 1..Len(vm_resources.block)}

\* What the caller gets for a DriveError of the given variant.
DriveConfigUserError(action, variant, arg) ==
    [action |-> action, phase |-> "postboot", status |-> "Err", arg |-> arg,
     err |-> [domain |-> "DriveConfig", kind |-> "User", variant |-> variant, cause |-> ""]]

\* C17: a rescan_block_device for a drive id that no block config of the
\* Registry has fails with DriveConfig(User, InvalidBlockDeviceID) and touches
\* no device: no config space is written and no interrupt raised.
C17_RescanUnknownDrive ==
    [][(result'.action = "RescanBlockDevice" /\ result'.arg \notin KnownDrives)
          => /\ result' = DriveConfigUserError("RescanBlockDevice", "InvalidBlockDeviceID",
                                               result'.arg)
             /\ vmm' = vmm
             /\ vm_resources' = vm_resources
             /\ epoll_context' = epoll_context]_vars

\* C17: a rescan of a drive the Registry does not know was answered, with
\* block devices on the bus.
C17_UnknownDriveRescanned ==
    /\ result.action = "RescanBlockDevice"
    /\ result.arg = "no_such_drive"
    /\ result.status = "Err"
    /\ NumOnBus(vmm, "block") > 0

\* C18: a rescan of a known drive whose file size is not a multiple of
\* SECTOR_SIZE succeeds: the config space is written, the config interrupt
\* raised, and the capacity the guest sees is the whole sectors only (for
\* SECTOR_SIZE*3+17 the last 17 bytes are not visible).
C18_RescanOddSize ==
    /\ \A drive_id \in KnownDrives, size \in DiskSizes \cup {SECTOR_SIZE * 3 + 17} :
         LET r == rescan_block_device(vmm, vm_resources.block, drive_id, "ok", size)
         IN  BlockOnBus(vmm.bus, drive_id) # {}
                => /\ r.err = None
                   /\ \A i \in BlockOnBus(vmm.bus, drive_id) :
                        /\ r.bus[i].config_space * SECTOR_SIZE = size - (size % SECTOR_SIZE)
                        /\ r.bus[i].interrupt_status
    /\ (result.action = "RescanBlockDevice" /\ result.status = "Ok")
          => \A i \in BlockOnBus(vmm.bus, result.arg) :
               /\ vmm.bus[i].config_space * SECTOR_SIZE = SECTOR_SIZE * 3
               /\ vmm.bus[i].interrupt_status

\* C18: a rescan found SECTOR_SIZE*3+17 bytes and succeeded; the device shows
\* three sectors.
C18_OddSizeRescanned ==
    /\ result.action = "RescanBlockDevice"
    /\ result.status = "Ok"
    /\ (SECTOR_SIZE * 3 + 17) \in DiskSizes
    /\ \E i \in BlockOnBus(vmm.bus, result.arg) :
         vmm.bus[i].config_space = 3 /\ vmm.bus[i].interrupt_status

\* C19: for a known drive, a rescan_block_device in which a step fails (the
\* file cannot be opened or seeked, the bus has no block device of that id, or
\* the device's lock is poisoned) fails with DriveConfig(User,
\* BlockDeviceUpdateFailed) and raises no config interrupt.
C19_RescanStepFails ==
    [][/\ (result'.action = "RescanBlockDevice" /\ result'.status = "Err"
           /\ result'.arg \in KnownDrives)
             => /\ result' = DriveConfigUserError("RescanBlockDevice",
                                                  "BlockDeviceUpdateFailed", result'.arg)
                /\ vmm' = vmm
       /\ \A drive_id \in KnownDrives, size \in DiskSizes :
            /\ \A f \in {"open", "lock"} :
                 LET r == rescan_block_device(vmm, vm_resources.block, drive_id, f, size)
                 IN  /\ r.err = {[domain |-> "DriveConfig", kind |-> "User",
                                  variant |-> "BlockDeviceUpdateFailed", cause |-> ""]}
                     /\ r.bus = vmm.bus
            /\ LET nobus == [vmm EXCEPT !.bus = SelectSeq(@, LAMBDA d : d.id # drive_id)]
                   r == rescan_block_device(nobus, vm_resources.block, drive_id, "ok", size)
               IN  /\ r.err = {[domain |-> "DriveConfig", kind |-> "User",
                                variant |-> "BlockDeviceUpdateFailed", cause |-> ""]}
                   /\ r.bus = nobus.bus]_vars

\* C19: a rescan of a known drive failed and its device has no interrupt
\* pending.
C19_KnownDriveRescanFailed ==
    /\ result.action = "RescanBlockDevice"
    /\ result.status = "Err"
    /\ result.arg \in KnownDrives
    /\ result.err.variant = "BlockDeviceUpdateFailed"
    /\ \E i \in BlockOnBus(vmm.bus, result.arg) : ~vmm.bus[i].interrupt_status

\* C20: an update_block_device_path for a drive id that is not in the Registry
\* fails with DriveConfig(User, InvalidBlockDeviceID): no config's
\* path_on_host changes, no device handler is updated, no rescan is done.
C20_UpdatePathUnknownDrive ==
    [][(result'.action = "UpdateBlockDevicePath" /\ result'.arg \notin KnownDrives)
          => /\ result' = DriveConfigUserError("UpdateBlockDevicePath", "InvalidBlockDeviceID",
                                               result'.arg)
             /\ vm_resources' = vm_resources
             /\ epoll_context' = epoll_context
             /\ vmm' = vmm]_vars

\* C20: a path update for a drive the Registry does not know was answered,
\* with block devices configured and attached.
C20_UnknownDrivePathUpdate ==
    /\ result.action = "UpdateBlockDevicePath"
    /\ result.arg = "no_such_drive"
    /\ result.status = "Err"
    /\ Len(vm_resources.block) > 0
    /\ NumOnBus(vmm, "block") > 0

\* C21: before boot UpdateBlockDevicePath is allowed and changes the Registry
\* only: for a known drive and a path that can be opened, with no block device
\* attached (no epoll handler for the drive), update_block_device_path returns
\* Ok and the config's path_on_host is the new path.
C21_PreBootPathUpdate ==
    [][(/\ result'.action = "UpdateBlockDevicePath"
        /\ result'.phase = "preboot"
        /\ result'.arg \in KnownDrives
        /\ device_handler(epoll_context, "block", result'.arg) = None
        /\ ~(result'.status = "Err" /\ result'.err.variant = "CannotOpenBlockDevice"))
          => /\ result'.status = "Ok"
             /\ \A i \in 1..Len(vm_resources'.block) :
                  vm_resources'.block[i].drive_id = result'.arg
                      => vm_resources'.block[i].path_on_host \in NewPaths
             /\ vmm' = vmm
             /\ epoll_context' = epoll_context]_vars

\* C21: before boot, the path of a known drive was updated to a file that can
\* be opened, and the Registry has the new path.
C21_PreBootPathUpdated ==
    /\ pc = "preboot"
    /\ result.action = "UpdateBlockDevicePath"
    /\ result.arg \in KnownDrives
    /\ \E i \in 1..Len(vm_resources.block) :
         /\ vm_resources.block[i].drive_id = result.arg
         /\ vm_resources.block[i].path_on_host \in NewPaths

\* C22: an update_block_device_path for a known drive whose new path cannot be
\* opened fails with DriveConfig(User, CannotOpenBlockDevice); the config's
\* path_on_host, the live device's backing file and the device's config space
\* stay as they were.
C22_UpdatePathCannotOpen ==
    [][/\ (result'.action = "UpdateBlockDevicePath" /\ result'.status = "Err"
           /\ result'.err.variant = "CannotOpenBlockDevice")
             => /\ result'.arg \in KnownDrives
                /\ result' = DriveConfigUserError("UpdateBlockDevicePath",
                                                  "CannotOpenBlockDevice", result'.arg)
                /\ vm_resources' = vm_resources
                /\ epoll_context' = epoll_context
                /\ vmm' = vmm
       /\ \A drive_id \in KnownDrives, path \in NewPaths, size \in DiskSizes :
            LET r == update_block_device_path(vmm, vm_resources.block, epoll_context,
                                              drive_id, path, "open", size)
            IN  /\ r.err = {[domain |-> "DriveConfig", kind |-> "User",
                             variant |-> "CannotOpenBlockDevice", cause |-> ""]}
                /\ r.block = vm_resources.block
                /\ r.ctx = epoll_context
                /\ r.bus = vmm.bus]_vars

\* C22: the path update of a known, attached drive failed because the new file
\* could not be opened.
C22_CannotOpenNewPath ==
    /\ pc = "running"
    /\ result.action = "UpdateBlockDevicePath"
    /\ result.status = "Err"
    /\ result.err.variant = "CannotOpenBlockDevice"
    /\ BlockOnBus(vmm.bus, result.arg) # {}
    /\ \A i \in 1..Len(vm_resources.block) : vm_resources.block[i].path_on_host \notin NewPaths

\* The net handler of an interface in an epoll context.
NetHandler(ctx, iface_id) ==
    {i \in 1..Len(ctx) : ctx[i].token = "DeviceHandler" /\ ctx[i].type = "net"
                          /\ ctx[i].id = iface_id}

\* The bucket an update gives for a limiter and metric: None when the update
\* leaves the limiter, or that bucket of it, unset.
GivenBucket(update, limiter, metric) ==
    IF update[limiter] = {} THEN {}
    ELSE (CHOOSE rl \in update[limiter] : TRUE)[metric]

\* C23: over any sequence of post-boot UpdateNetworkInterface calls on an
\* interface, each of its four buckets (rx bandwidth, rx ops, tx bandwidth,
\* tx ops) holds the value of the latest call that set it: a call puts the
\* buckets it gives and leaves the ones it does not give (bucket or whole
\* limiter unset) as they were.
C23_LatestBucketWins ==
    [][(result'.action = "UpdateNetworkInterface" /\ result'.status = "Ok")
          => \A i \in NetHandler(epoll_context, result'.arg.iface_id) :
               LET before == epoll_context[i].rate_limiters
                   after == epoll_context'[i].rate_limiters
                   update == result'.arg
               IN  /\ after.rx_bandwidth
                         = (IF GivenBucket(update, "rx_rate_limiter", "bandwidth") = {}
                            THEN before.rx_bandwidth
                            ELSE GivenBucket(update, "rx_rate_limiter", "bandwidth"))
                   /\ after.rx_ops
                         = (IF GivenBucket(update, "rx_rate_limiter", "ops") = {}
                            THEN before.rx_ops
                            ELSE GivenBucket(update, "rx_rate_limiter", "ops"))
                   /\ after.tx_bandwidth
                         = (IF GivenBucket(update, "tx_rate_limiter", "bandwidth") = {}
                            THEN before.tx_bandwidth
                            ELSE GivenBucket(update, "tx_rate_limiter", "bandwidth"))
                   /\ after.tx_ops
                         = (IF GivenBucket(update, "tx_rate_limiter", "ops") = {}
                            THEN before.tx_ops
                            ELSE GivenBucket(update, "tx_rate_limiter", "ops"))]_vars

\* C23: after several updates, the last one gave only the rx ops bucket: rx
\* ops is its value, rx bandwidth and tx bandwidth are what earlier calls set.
C23_BucketsFromDifferentCalls ==
    /\ result.action = "UpdateNetworkInterface"
    /\ result.status = "Ok"
    /\ result.arg.rx_rate_limiter = {[bandwidth |-> {}, ops |-> {1}]}
    /\ result.arg.tx_rate_limiter = {}
    /\ \E i \in NetHandler(epoll_context, result.arg.iface_id) :
         /\ epoll_context[i].rate_limiters.rx_ops = {1}
         /\ epoll_context[i].rate_limiters.rx_bandwidth = {2}
         /\ epoll_context[i].rate_limiters.tx_bandwidth = {2}

\* C24: VmmController::run ends by calling stop exactly once, with the exit
\* code fixed by how the loop ended: 0 (OK) when the event loop yields Break,
\* 1 (generic error) when the wait returns an error, and the handler's own
\* code when handle_control_event returns Err(code).
C24_StopOnceWithExitCode ==
    /\ Len(run.stop_calls) <= 1
    /\ pc = "stopped"
          => /\ Len(run.stop_calls) = 1
             /\ run.stop_calls[1]
                    = (IF run.exit_reason = "Break" THEN 0
                       ELSE IF run.exit_reason = "Err" THEN 1
                       ELSE CHOOSE code \in run.handler_ret.code : TRUE)
             /\ run.exit_reason = "ControlAction" => run.handler_ret.status = "Err"
    /\ pc # "stopped" => run.stop_calls = <<>>

\* C24: run has ended on a handler's Err(255), after a ControlAction that the
\* handler answered with Ok.
C24_StoppedWithHandlerCode ==
    /\ pc = "stopped"
    /\ run.handler_calls = 2
    /\ run.handler_ret = [status |-> "Err", code |-> {255}]
    /\ run.stop_calls = <<255>>

\* C25: in run the ControlEventHandler is invoked exactly once for each
\* ControlAction exit of the event loop and never for Break or a wait error;
\* after a handler call that returns Ok the loop waits again; after stop no
\* handler call and no wait happens.
C25_HandlerOncePerControlAction ==
    [][/\ run'.handler_calls
              = run'.control_actions - (IF pc' = "handle_control_event" THEN 1 ELSE 0)
       /\ run'.handler_calls > run.handler_calls
              => /\ run'.handler_calls = run.handler_calls + 1
                 /\ run.exit_reason = "ControlAction"
                 /\ run'.handler_ret.status = "Ok" => pc' = "run_event_loop"
       /\ (run'.waits > run.waits /\ run'.exit_reason \in {"Break", "Err"})
              => /\ pc' # "handle_control_event"
                 /\ run'.handler_calls = run.handler_calls
       /\ run.stop_calls # <<>>
              => run'.handler_calls = run.handler_calls /\ run'.waits = run.waits]_vars

\* C25: the handler answered a ControlAction with Ok and the loop waited
\* again, getting a second ControlAction.
C25_SecondControlAction ==
    /\ pc = "handle_control_event"
    /\ run.control_actions = 2
    /\ run.handler_calls = 1
    /\ run.handler_ret.status = "Ok"

\* C26: once the event loop has yielded Break or a wait error, or the handler
\* has returned Err, run eventually calls stop; and run calls stop only then:
\* while every exit is a ControlAction that the handler answers with Ok, stop
\* is not called.
C26_RunStopsWhenLoopEnds ==
    /\ (run.exit_reason \in {"Break", "Err"} \/ run.handler_ret.status = "Err")
           ~> (pc = "stopped" /\ Len(run.stop_calls) = 1)
    /\ [](run.stop_calls # <<>>
             => (run.exit_reason \in {"Break", "Err"} \/ run.handler_ret.status = "Err"))

\* C26: run has called stop after the handler returned Err.
C26_StoppedAfterHandlerErr ==
    /\ pc = "stopped"
    /\ run.exit_reason = "ControlAction"
    /\ run.handler_ret.status = "Err"
    /\ run.stop_calls # <<>>

\* C27: the vCPU threads are started only after every other fallible step has
\* succeeded (device attachment, the command-line write on x86_64,
\* configure_system and register_events, in that order): when build_microvm
\* returns an error from a step before start_vcpus, no vCPU thread was started.
C27_VcpusStartedLast ==
    [][/\ (InBuild /\ pc' = "preboot" /\ pc # "start_vcpus")
             => /\ vmm.vcpus # "started"
                /\ ~Completed("start_vcpus")
                /\ result'.status = "Err"
       /\ (vmm'.vcpus = "started" /\ vmm.vcpus # "started")
             => /\ pc = "start_vcpus"
                /\ BusOrder = ExpectedAttachOrder
                /\ arch = "x86_64" => IsSome(vmm.guest_cmdline)
                /\ vmm.system_configured
                /\ vmm.exit_evt
                /\ Completed("configure_system") /\ Completed("register_events")
                /\ Before("configure_system", "register_events")
                /\ arch = "x86_64"
                      => Completed("load_cmdline") /\ Before("load_cmdline", "configure_system")
                /\ \A i \in 1..Len(build_trace) :
                      IsAttachEv(build_trace[i])
                          => \A j \in Pos("configure_system") \cup Pos("load_cmdline") : i < j]_vars

\* C27: a StartMicroVm failed in register_events, the last step before the
\* vCPUs are started, with a device attached.
C27_FailedRegisterEvents ==
    /\ FailedStart
    /\ result.err.cause = "register_events"
    /\ Completed("configure_system")
    /\ \E i \in 1..Len(build_trace) : IsAttachEv(build_trace[i])

\* The files the action just answered opened for a drive.
OpenedFiles == {build_trace[i] : i \in Pos("open")}

\* C28: a block drive declared read-only is never opened for writing.  At
\* attach the file is opened writable exactly when is_read_only is false, and
\* the Block device gets the same flag; update_block_device_path opens the new
\* path writable exactly when the config is not read-only; a rescan opens the
\* file read-only.
C28_ReadOnlyNeverWritable ==
    /\ \A c \in 1..Len(vm_resources.block) :
         LET cfg == vm_resources.block[c]
         IN  /\ \A i \in 1..Len(epoll_context) :
                  (epoll_context[i].type = "block" /\ epoll_context[i].id = cfg.drive_id
                   /\ epoll_context[i].disk_image # "")
                      => epoll_context[i].disk_write = ~cfg.is_read_only
             /\ \A i \in BlockOnBus(vmm.bus, cfg.drive_id) :
                  vmm.bus[i].read_only = cfg.is_read_only
             /\ \A o \in OpenedFiles :
                  (o.id = cfg.drive_id /\ cfg.is_read_only) => ~o.file.write
    /\ result.action = "RescanBlockDevice" => \A o \in OpenedFiles : ~o.file.write
    /\ (result.action = "UpdateBlockDevicePath" /\ result.arg \in KnownDrives)
          => /\ Pos("open") # {}
             /\ \A i \in Pos("open") :
                  \A c \in 1..Len(vm_resources.block) :
                     vm_resources.block[c].drive_id = result.arg
                        => build_trace[i].file.write
                               = (i = 1 /\ ~vm_resources.block[c].is_read_only)

\* C28: the path of a read-only drive was updated on a running microVM: its
\* handler has the new file, not writable, and the rescan has opened it too.
C28_ReadOnlyDrivePathUpdated ==
    /\ pc = "running"
    /\ result.action = "UpdateBlockDevicePath"
    /\ result.status = "Ok"
    /\ Cardinality(Pos("open")) = 2
    /\ \E c \in 1..Len(vm_resources.block) :
         /\ vm_resources.block[c].drive_id = result.arg
         /\ vm_resources.block[c].is_read_only
         /\ \E i \in 1..Len(epoll_context) :
              /\ epoll_context[i].id = result.arg
              /\ epoll_context[i].disk_image \in NewPaths
              /\ ~epoll_context[i].disk_write

\* The variants a failure to open or construct a backing resource gives:
\* host file, tap, vsock backend.
OpenFailures == {"OpenBlockDevice", "NetDeviceNotConfigured", "CreateVsockBackend"}

\* The dispatcher entries the build_microvm call being answered has added.
AllocatedByCall ==
    {epoll_context[i] : i \in (Len(epoll_at_call) + 1)..Len(epoll_context)}

\* The devices whose attachment the call completed.
AttachedByCall ==
    {[type |-> "block", id |-> build_trace[i].id] : i \in Pos("attach_block")}
    \cup {[type |-> "net", id |-> build_trace[i].id] : i \in Pos("attach_net")}
    \cup {[type |-> "vsock", id |-> build_trace[i].id] : i \in Pos("attach_vsock")}

\* C29: for each device class the backing resource is opened or constructed
\* before event tokens are allocated, so a build that fails to open a device's
\* backing resource has allocated no tokens for that device: the tokens it
\* has allocated all belong to devices attached before.
C29_FailedOpenAllocatesNoTokens ==
    (FailedStart /\ result.err.variant \in OpenFailures)
        => \A h \in AllocatedByCall :
             h.token = "DeviceHandler"
                => [type |-> h.type, id |-> h.id] \in AttachedByCall

\* C29: the tap of an interface could not be opened, and the dispatcher holds
\* tokens of that interface.
C29_TapOpenFailedWithTokens ==
    /\ FailedStart
    /\ result.err.variant = "NetDeviceNotConfigured"
    /\ \E h \in AllocatedByCall :
         /\ h.type = "net"
         /\ [type |-> "net", id |-> h.id] \notin AttachedByCall

\* C29, block and vsock: the host file and the vsock backend come before the
\* tokens.
C29_BlockVsockOpenFirst ==
    (FailedStart /\ result.err.variant \in {"OpenBlockDevice", "CreateVsockBackend"})
        => \A h \in AllocatedByCall :
             h.token = "DeviceHandler"
                => [type |-> h.type, id |-> h.id] \in AttachedByCall

\* Positions in the log of the accesses of one kind to one device.
LogPos(step, id) ==
    {i \in 1..Len(mmio.log) : mmio.log[i].step = step /\ mmio.log[i].id = id}

\* C30: in a successful rescan_block_device the new size is written to the
\* config space before the config interrupt is injected, the control thread
\* holds the device's lock from before the write until after the interrupt,
\* and no access of a vCPU thread to the same device is served between the
\* write and the interrupt.
C30_NothingBetweenWriteAndInterrupt ==
    /\ \A id \in KnownDrives :
         /\ \A j \in LogPos("interrupt", id) : \E i \in LogPos("write", id) : i < j
         /\ \A i \in LogPos("write", id) :
              \A j \in LogPos("access", id) :
                 i < j => \E k \in LogPos("interrupt", id) : i < k /\ k < j
    /\ pc \in {"rescan_block_device.write", "rescan_block_device.interrupt",
               "rescan_block_device.return"}
          => /\ Held(Unwrap(mmio.call).drive_id, "control") \in mmio.lock
             /\ ~(mmio.vcpu.pos = "access" /\ mmio.vcpu.id = Unwrap(mmio.call).drive_id)
    /\ pc = "rescan_block_device.return"
          => LET call == Unwrap(mmio.call)
                 dev == vmm.bus[Unwrap(BlockOnBus(vmm.bus, call.drive_id))]
             IN  /\ dev.config_space = build_config_space(call.new_size)
                 /\ dev.interrupt_status
                 /\ LogPos("write", call.drive_id) # {}
                 /\ LogPos("interrupt", call.drive_id) # {}

\* C30: a rescan has succeeded, and an access of the vCPU thread to the
\* rescanned device, served after the interrupt, saw the new size and the
\* interrupt.
C30_VcpuServedAfterInterrupt ==
    /\ pc = "running"
    /\ result.action = "RescanBlockDevice"
    /\ result.status = "Ok"
    /\ \E i, j, k \in 1..Len(mmio.log) :
         /\ i < j /\ j < k
         /\ mmio.log[i].step = "write"
         /\ mmio.log[j].step = "interrupt"
         /\ mmio.log[k].step = "access"
         /\ mmio.log[k].id = result.arg
         /\ mmio.log[k].config_space = mmio.log[i].config_space
         /\ mmio.log[k].interrupt_status

\* What the last UpdateBlockDevicePath was told and found: the new path and
\* the size of the file there.
UpdateRequests == {build_trace[i] : i \in Pos("size_at")}

\* The file the block handler of a drive works on, if there is a handler.
HandlerFile(ctx, id) ==
    {ctx[i].disk_image : i \in {j \in 1..Len(ctx) : Some(j) = device_handler(ctx, "block", id)}}

\* C31: a successful update_block_device_path updates the config's
\* path_on_host, then replaces the backing file through the block handler,
\* then rescans; the rescan runs only if the handler update succeeded, and the
\* size it writes to the config space is that of the file at the new path.
C31_PathThenHandlerThenRescan ==
    /\ [](\A e \in UpdateRequests :
            \A c \in 1..Len(vm_resources.block) :
               vm_resources.block[c].drive_id = e.id =>
                  LET cfg == vm_resources.block[c]
                  IN  /\ Cardinality(Pos("open")) = 2
                         => /\ HandlerFile(epoll_context, e.id) = {e.path}
                            /\ cfg.path_on_host = e.path
                      /\ result.status = "Ok"
                         => /\ cfg.path_on_host = e.path
                            /\ HandlerFile(epoll_context, e.id) = {e.path}
                            /\ Cardinality(Pos("open")) = 2
                            /\ \A i \in BlockOnBus(vmm.bus, e.id) :
                                 /\ vmm.bus[i].config_space = build_config_space(e.size)
                                 /\ vmm.bus[i].interrupt_status)
    /\ [][(result'.action = "UpdateBlockDevicePath" /\ vmm'.bus # vmm.bus)
             => /\ result'.status = "Ok"
                /\ HandlerFile(epoll_context', result'.arg) \subseteq NewPaths
                /\ HandlerFile(epoll_context', result'.arg) # {}]_vars

\* C31: a path update succeeded on a running microVM whose new file has a
\* size other than the one the device was attached with.
C31_UpdatedToFileOfOtherSize ==
    /\ pc = "running"
    /\ result.action = "UpdateBlockDevicePath"
    /\ result.status = "Ok"
    /\ \E e \in UpdateRequests :
         /\ e.size \notin BootDiskSizes
         /\ \E i \in BlockOnBus(vmm.bus, e.id) :
              vmm.bus[i].config_space = build_config_space(e.size)

\* C32: update_block_device_path is all-or-nothing for the Registry: when it
\* returns an error the config's path_on_host is what it was before the call,
\* so the Registry's path and the live device's backing file do not diverge.
C32_ErrorKeepsRegistryPath ==
    [][(result'.action = "UpdateBlockDevicePath" /\ result'.status = "Err")
          => vm_resources'.block = vm_resources.block]_vars

\* C32: on a running microVM a path update failed at the handler, and the
\* config names the new path while the handler still works on the old file.
C32_PathDivergedFromHandler ==
    /\ pc = "running"
    /\ result.action = "UpdateBlockDevicePath"
    /\ result.status = "Err"
    /\ result.err.variant \in {"EpollHandlerNotFound", "BlockDeviceUpdateFailed"}
    /\ \E c \in 1..Len(vm_resources.block) :
         /\ vm_resources.block[c].drive_id = result.arg
         /\ vm_resources.block[c].path_on_host \in NewPaths
         /\ HandlerFile(epoll_context, result.arg) # {}
         /\ vm_resources.block[c].path_on_host \notin HandlerFile(epoll_context, result.arg)

\* The drive of the block device registered first on the MMIO bus: the one
\* the guest sees as /dev/vda.
FirstBlockOnBus ==
    {vmm.bus[i].id : i \in {j \in 1..Len(vmm.bus) :
                               /\ vmm.bus[j].type = "block"
                               /\ \A k \in 1..(j - 1) : vmm.bus[k].type # "block"}}

\* C33: whenever attach_block_devices has added root=/dev/vda to the command
\* line, the block device registered first on the bus is the config with
\* is_root_device = true, whatever pre-boot insertions made the Registry.
C33_VdaIsRootDevice ==
    ArgPos("root=/dev/vda") # {}
        => \A id \in FirstBlockOnBus :
             \E r \in RootConfigs : vm_resources.block[r].drive_id = id

\* C33: a microVM runs with root=/dev/vda on its command line, and its first
\* block device is a drive that is not the root device.
C33_VdaIsNotRootDevice ==
    /\ pc = "running"
    /\ ArgPos("root=/dev/vda") # {}
    /\ RootConfigs # {}
    /\ \E id \in FirstBlockOnBus :
         \A r \in RootConfigs : vm_resources.block[r].drive_id # id

\* The variants of a failure to register a device.
RegisterFailures == {"RegisterBlockDevice", "RegisterNetDevice", "RegisterVsockDevice"}

\* C34: a failure to register a device with the MMIO device manager is
\* reported with the variant of the device's class: RegisterBlockDevice for a
\* block device, RegisterNetDevice for a network device, RegisterVsockDevice
\* for the vsock device.
C34_RegisterVariantOfClass ==
    [][(/\ pc \in {"attach_block_devices.loop", "attach_net_devices", "attach_vsock_device"}
        /\ pc' = "preboot"
        /\ result'.status = "Err"
        /\ result'.err.variant \in RegisterFailures)
          => result'.err.variant
                = (CASE pc = "attach_block_devices.loop" -> "RegisterBlockDevice"
                     [] pc = "attach_net_devices" -> "RegisterNetDevice"
                     [] pc = "attach_vsock_device" -> "RegisterVsockDevice")]_vars

\* C34: the build failed with RegisterBlockDevice, the device manager having
\* refused a network device or the vsock device: every block device was
\* attached, and the dispatcher holds tokens of a device that was not.
C34_NetReportedAsBlock ==
    /\ FailedStart
    /\ result.err.variant = "RegisterBlockDevice"
    /\ result.err.cause # "CreateMmioDevice"
    /\ Cardinality(Pos("attach_block")) = Len(vm_resources.block)
    /\ \E h \in AllocatedByCall :
         /\ h.type \in {"net", "vsock"}
         /\ [type |-> h.type, id |-> h.id] \notin AttachedByCall

\* C35: update_net_rate_limiters never changes the Registry and patches only
\* the handler of the interface named by iface_id; when no net handler exists
\* for that iface_id it fails with NetworkConfig(Internal,
\* EpollHandlerNotFound) and patches no rate limiter of any interface.
C35_OnlyNamedHandlerPatched ==
    [][result'.action = "UpdateNetworkInterface"
          => LET named == NetHandler(epoll_context, result'.arg.iface_id)
             IN  /\ vm_resources' = vm_resources
                 /\ Len(epoll_context') = Len(epoll_context)
                 /\ \A i \in 1..Len(epoll_context) :
                      i \notin named => epoll_context'[i] = epoll_context[i]
                 /\ \A i \in named :
                      epoll_context'[i] = [epoll_context[i] EXCEPT
                                              !.rate_limiters = epoll_context'[i].rate_limiters]
                 /\ result'.status = "Err"
                      => /\ epoll_context' = epoll_context
                         /\ result'.err.domain = "NetworkConfig"
                         /\ result'.err.kind = Internal
                         /\ result'.err.variant = "EpollHandlerNotFound"
                 /\ named = {} => result'.status = "Err"]_vars

\* C35: the rate limiters of eth0 were patched on a microVM that has a second
\* interface, whose handler has no patched limiter.
C35_OneOfTwoPatched ==
    /\ result.action = "UpdateNetworkInterface"
    /\ result.status = "Ok"
    /\ result.arg.iface_id = "eth0"
    /\ \E i \in NetHandler(epoll_context, "eth0") :
         epoll_context[i].rate_limiters # Unpatched
    /\ \E j \in NetHandler(epoll_context, "eth1") :
         epoll_context[j].rate_limiters = Unpatched
    /\ Len(vm_resources.network_interface) = 2

\* C36: the metrics timer is armed, periodic with an initial delay and an
\* interval of 60 s, only as the last step of a successful build, after the
\* vCPUs were started, and one metrics dump is attempted then; a failed dump
\* does not fail the boot, and a failed build never arms the timer.
C36_TimerArmedLast ==
    /\ [](/\ vmm.timer_state # None
             => /\ pc = "running"
                /\ vmm.vcpus = "started"
                /\ vmm.timer_state = Some(Periodic(60, 60))
                /\ vmm.log_metrics_calls = 1
          /\ pc = "running"
             => /\ vmm.timer_state # None
                /\ vmm.missed_metrics \in {0, 1}
          /\ (pc # "running" \/ FailedStart)
             => (vmm.timer_state = None /\ vmm.log_metrics_calls = 0))
    /\ [][vmm'.timer_state # vmm.timer_state
             => /\ pc = "arm_logger_and_metrics"
                /\ Completed("start_vcpus")
                /\ pc' = "running"
                /\ result'.status = "Ok"
                /\ vmm'.log_metrics_calls = vmm.log_metrics_calls + 1]_vars

\* C36: a microVM runs although the metrics dump at the end of its build
\* failed; its timer is armed.
C36_BootedWithFailedDump ==
    /\ pc = "running"
    /\ result.action = "StartMicroVm"
    /\ result.status = "Ok"
    /\ vmm.missed_metrics = 1
    /\ vmm.log_metrics_calls = 1
    /\ vmm.timer_state = Some(Periodic(60, 60))

=============================================================================
